---- MODULE Spec2Model ----
(***************************************************************************)
(* fastcache: a model of the registry client's download coordination       *)
(* (src/src/registry-client.js) and of the dependency resolver             *)
(* (src/unnamed/part_003, class DependencyResolver).                       *)
(*                                                                         *)
(* Node.js runs one thread of control; an async function runs without      *)
(* interruption from one await to the next.  Every action below is one     *)
(* such run-to-the-next-await segment of the function it models.           *)
(***************************************************************************)
EXTENDS Integers, Sequences, FiniteSets, TLC

VARIABLES
    activeDownloads,   \* RegistryClient.activeDownloads: downloadKey -> promise
    metadataCache,     \* RegistryClient.metadataCache: names with a cached record
    nextExec,          \* number of _performDownload executions started so far
    callers,           \* each caller's downloadPackage call and, in the call
                       \* that started it, the _performDownload execution
    fsTemp,            \* staging directories temp-<name>-<version>-<suffix> on
                       \* disk, named by the execution that created them
    resolved,          \* DependencyResolver.resolved: "name@range" -> version
    rs,                \* the resolve call in progress or last finished
    sv,                \* the last selectVersion call: arguments and result
    slots,             \* the store directory: slot path -> files of the slot
    metaFiles,         \* the metadata directory: file name -> record
    clock,             \* the current day
    op,                \* the store operation in progress or last finished
    opCount,           \* number of store operations started so far
    stored,            \* history: the identities whose storePackage has
                       \* returned, no deletePackage having returned true
                       \* for them since
    lk,                \* the linkPackage call in progress or last finished
    tgt,               \* what the file system holds at targetPath
    parent,            \* whether the directory above targetPath exists
    linkCount,         \* number of linkPackage calls started so far
    cr,                \* two resolve calls on one DependencyResolver
    crMemo,            \* the DependencyResolver.resolved they share
    mdCache,           \* RegistryClient.metadataCache: name -> record
    mdCalls,           \* each caller's getPackageMetadata call
    fetches,           \* history: per name, the fetches that brought a record
    mdCount,           \* number of getPackageMetadata calls started so far
    ins,               \* each FastCache.install call
    disk,              \* the directories and records the installs share
    inActive,          \* RegistryClient.activeDownloads of the installs
    inNow,             \* Date.now() of the installs
    inCount,           \* number of install calls started so far
    up,                \* each caller's updateMetadata or touchPackage call
    upFiles,           \* the metadata files these callers share
    upClock,           \* the clock their touchPackage calls read
    upCount,           \* number of calls begun so far
    tmp,               \* each install's position on the miss path for the name
    tempDir,           \* cacheDir/temp/<name>: whether it exists, its files
    vslots,            \* the slot of each stored version: its files
    tmpCount           \* number of these installs started so far

dlVars == <<activeDownloads, metadataCache, nextExec, callers, fsTemp>>

rsVars == <<resolved, rs>>

svVars == <<sv>>

\* What the actions of one component leave unchanged: the other components.
stVars == <<slots, metaFiles, clock, op, opCount, stored>>

lkVars == <<lk, tgt, parent, linkCount>>

crVars == <<cr, crMemo>>

mdVars == <<mdCache, mdCalls, fetches, mdCount>>

inVars == <<ins, disk, inActive, inNow, inCount>>

upVars == <<up, upFiles, upClock, upCount>>

tmpVars == <<tmp, tempDir, vslots, tmpCount>>

outsideDownload ==
    <<rsVars, svVars, stVars, lkVars, crVars, mdVars, inVars, upVars, tmpVars>>

outsideResolver ==
    <<dlVars, svVars, stVars, lkVars, crVars, mdVars, inVars, upVars, tmpVars>>

outsideSelect ==
    <<dlVars, rsVars, stVars, lkVars, crVars, mdVars, inVars, upVars, tmpVars>>

outsideStore ==
    <<dlVars, rsVars, svVars, lkVars, crVars, mdVars, inVars, upVars, tmpVars>>

outsideLink ==
    <<dlVars, rsVars, svVars, stVars, crVars, mdVars, inVars, upVars, tmpVars>>

outsideConcurrent ==
    <<dlVars, rsVars, svVars, stVars, lkVars, mdVars, inVars, upVars, tmpVars>>

outsideMetadata ==
    <<dlVars, rsVars, svVars, stVars, lkVars, crVars, inVars, upVars, tmpVars>>

outsideInstall ==
    <<dlVars, rsVars, svVars, stVars, lkVars, crVars, mdVars, upVars, tmpVars>>

outsideUpdates ==
    <<dlVars, rsVars, svVars, stVars, lkVars, crVars, mdVars, inVars, tmpVars>>

outsideTempDir ==
    <<dlVars, rsVars, svVars, stVars, lkVars, crVars, mdVars, inVars, upVars>>

vars == <<dlVars, rsVars, svVars, stVars, lkVars, crVars, mdVars, inVars,
         upVars,
         tmpVars>>

(***************************************************************************)
(* Bounds and inputs of the download model.  Callers issue calls while     *)
(* fewer than MaxExecs executions have been started.                       *)
(***************************************************************************)
MaxExecs == 2

Callers == {"c1", "c2", "c3"}

\* What the registry serves: the versions of each package (metadata.versions).
DlRegistry ==
    [n \in {"lodash", "express"} |->
        IF n = "lodash" THEN {"4.17.20", "4.17.21"} ELSE {"4.17.21"}]

\* The (packageName, version, targetPath) triples callers ask for: a base
\* triple, and one differing from it in the name, the version, the target.
DlRequests ==
    { <<"lodash",  "4.17.21", "/c/temp/lodash">>,
      <<"express", "4.17.21", "/c/temp/lodash">>,
      <<"lodash",  "9.9.9",   "/c/temp/lodash">>,
      <<"lodash",  "4.17.21", "/d/temp/lodash">> }

NoReq == <<"", "", "">>

(***************************************************************************)
(* RegistryClient.downloadPackage, line 43: the in-flight key.             *)
(***************************************************************************)
KeyIgnoringTarget(packageName, version, targetPath) ==
    packageName \o "@" \o version

downloadKey(packageName, version, targetPath) ==
    packageName \o "@" \o version \o ":" \o targetPath

KeyOf(req) == downloadKey(req[1], req[2], req[3])

DlKeys == {KeyOf(req) : req \in DlRequests}

(***************************************************************************)
(* Errors are modelled by their message.  WrapDownloadError is line 114,   *)
(* WrapMetadataError line 37, VersionNotFound line 70.                     *)
(***************************************************************************)
RethrowUnchanged(packageName, version, message) == message

WrapDownloadError(packageName, version, message) ==
    "Failed to download " \o packageName \o "@" \o version \o ": " \o message

WrapMetadataError(packageName, message) ==
    "Error fetching " \o packageName \o ": " \o message

VersionNotFound(packageName, version) ==
    "Version " \o version \o " not found for " \o packageName

\* The error each awaited operation of _performDownload fails with.
CauseOf(step) ==
    CASE step = "fetchMeta" -> "ENOTFOUND"
      [] step = "mkTemp"    -> "EACCES"
      [] step = "mkTarget"  -> "EEXIST"
      [] step = "fetchTar"  -> "Download failed: Not Found"
      [] step = "pipe"      -> "ENOSPC"
      [] step = "extract"   -> "TAR_BAD_ARCHIVE"
      [] OTHER              -> ""

(***************************************************************************)
(* A caller's record.  pc is the call's position: "idle" (no call yet),    *)
(* "awaitInit" (line 57, in the call that started the execution),          *)
(* "awaitJoin" (line 47, in a call that joined, the promise it follows     *)
(* not yet delivered), "joinSettled" (the promise it follows is settled,   *)
(* the caller not yet resumed), "returned".  on is the caller whose call   *)
(* created the promise this call awaits; exec numbers that execution.      *)
(* xpc: the execution's position; cause: the error thrown inside           *)
(* _performDownload (by getPackageMetadata, line 70, mkdir, or an          *)
(* operation of the try block); status, error: the outcome of the promise  *)
(* (of the execution while awaitInit, of the call afterwards).             *)
(***************************************************************************)
IdleCaller ==
    [pc |-> "idle", req |-> NoReq, on |-> "", exec |-> 0, xpc |-> "none",
     cause |-> "", status |-> "none", error |-> ""]

Pending(c) == callers[c].pc \in {"awaitInit", "awaitJoin", "joinSettled"}

Running(c) ==
    /\ callers[c].pc = "awaitInit"
    /\ callers[c].xpc \notin {"resolved", "rejected"}

Settled(c) ==
    /\ callers[c].pc = "awaitInit"
    /\ callers[c].xpc \in {"resolved", "rejected"}

Reject(x, cause, error) ==
    [x EXCEPT !.xpc = "rejected", !.cause = cause, !.status = "err",
              !.error = error]

(***************************************************************************)
(* downloadPackage, lines 42-57, up to its await: the key, the lookup in   *)
(* activeDownloads, and either the join (line 47) or the start of          *)
(* _performDownload and its registration (lines 51-54).  No await          *)
(* separates the lookup from the registration.  _performDownload runs to   *)
(* its first await (line 66): getPackageMetadata (lines 17-21) answers     *)
(* from the cache when it can; otherwise the registry fetch is in flight.  *)
(***************************************************************************)
NeverActive(key) == FALSE

IsActive(key) == key \in DOMAIN activeDownloads

DownloadPackageCall(c, req) ==
    /\ callers[c].pc \in {"idle", "returned"}
    /\ nextExec < MaxExecs
    /\ LET key == KeyOf(req) IN
       IF IsActive(key)
       THEN /\ callers' = [callers EXCEPT ![c] =
                    [IdleCaller EXCEPT !.pc = "awaitJoin", !.req = req,
                        !.on = activeDownloads[key],
                        !.exec = callers[activeDownloads[key]].exec]]
            /\ UNCHANGED <<activeDownloads, nextExec>>
       ELSE /\ nextExec' = nextExec + 1
            /\ activeDownloads' = (key :> c) @@ activeDownloads
            /\ callers' = [callers EXCEPT ![c] =
                    [IdleCaller EXCEPT !.pc = "awaitInit", !.req = req,
                        !.on = c, !.exec = nextExec + 1,
                        !.xpc = IF req[1] \in metadataCache
                                THEN "gotMeta" ELSE "fetchMeta"]]
    /\ UNCHANGED <<metadataCache, fsTemp, outsideDownload>>

(***************************************************************************)
(* _performDownload, lines 66-81: the registry answers the metadata fetch  *)
(* (getPackageMetadata lines 26-38), or the cached record is delivered;    *)
(* then the version lookup, and mkdir of the staging directory is issued.  *)
(***************************************************************************)
AfterMetadata(x) ==
    IF x.req[2] \in DlRegistry[x.req[1]]
    THEN [x EXCEPT !.xpc = "mkTemp"]
    ELSE LET m == VersionNotFound(x.req[1], x.req[2]) IN Reject(x, m, m)

FetchMetadataReturns(c) ==
    /\ callers[c].xpc = "fetchMeta"
    /\ \/ /\ metadataCache' = metadataCache \cup {callers[c].req[1]}
          /\ callers' = [callers EXCEPT ![c] = AfterMetadata(@)]
       \/ /\ callers' = [callers EXCEPT ![c] =
                 Reject(@, WrapMetadataError(@.req[1], CauseOf("fetchMeta")),
                        WrapMetadataError(@.req[1], CauseOf("fetchMeta")))]
          /\ UNCHANGED metadataCache
    /\ UNCHANGED <<activeDownloads, nextExec, fsTemp, outsideDownload>>

CachedMetadataReturns(c) ==
    /\ callers[c].xpc = "gotMeta"
    /\ callers' = [callers EXCEPT ![c] = AfterMetadata(@)]
    /\ UNCHANGED <<activeDownloads, metadataCache, nextExec, fsTemp,
                   outsideDownload>>

(***************************************************************************)
(* Line 81: mkdir of the staging directory returns.                        *)
(***************************************************************************)
MkdirTempReturns(c) ==
    /\ callers[c].xpc = "mkTemp"
    /\ \/ /\ fsTemp' = fsTemp \cup {callers[c].exec}
          /\ callers' = [callers EXCEPT ![c].xpc = "mkTarget"]
       \/ /\ callers' = [callers EXCEPT ![c] =
                 Reject(@, CauseOf("mkTemp"), CauseOf("mkTemp"))]
          /\ UNCHANGED fsTemp
    /\ UNCHANGED <<activeDownloads, metadataCache, nextExec, outsideDownload>>

(***************************************************************************)
(* Line 82: mkdir of the target directory returns.  It is awaited before   *)
(* the try block of line 84 is entered, so its failure reaches no catch.   *)
(***************************************************************************)
MkdirTargetReturns(c) ==
    /\ callers[c].xpc = "mkTarget"
    /\ \/ callers' = [callers EXCEPT ![c].xpc = "fetchTar"]
       \/ callers' = [callers EXCEPT ![c] =
              Reject(@, CauseOf("mkTarget"), CauseOf("mkTarget"))]
    /\ UNCHANGED <<activeDownloads, metadataCache, nextExec, fsTemp,
                   outsideDownload>>

(***************************************************************************)
(* Lines 84-103, inside the try block: the tarball fetch, the stream       *)
(* write, the extraction.  A failure of any of them enters the catch       *)
(* block, whose rm (line 112) is then in flight.                           *)
(***************************************************************************)
TryStepReturns(c, step, next) ==
    /\ callers[c].xpc = step
    /\ \/ callers' = [callers EXCEPT ![c].xpc = next]
       \/ callers' = [callers EXCEPT ![c].xpc = "cleanup",
                                     ![c].cause = CauseOf(step)]
    /\ UNCHANGED <<activeDownloads, metadataCache, nextExec, fsTemp,
                   outsideDownload>>

FetchTarballReturns(c) == TryStepReturns(c, "fetchTar", "pipe")

PipelineReturns(c) == TryStepReturns(c, "pipe", "extract")

ExtractReturns(c) == TryStepReturns(c, "extract", "rmTemp")

(***************************************************************************)
(* Lines 106-108: the staging directory is removed and the execution       *)
(* resolves with targetPath.                                               *)
(***************************************************************************)
RemoveTempReturns(c) ==
    /\ callers[c].xpc = "rmTemp"
    /\ fsTemp' = fsTemp \ {callers[c].exec}
    /\ callers' = [callers EXCEPT ![c].xpc = "resolved", ![c].status = "ok"]
    /\ UNCHANGED <<activeDownloads, metadataCache, nextExec, outsideDownload>>

(***************************************************************************)
(* Lines 109-115: the catch block removes the staging directory and        *)
(* throws a new Error made of the caught error's message.                  *)
(***************************************************************************)
CatchCleanupReturns(c) ==
    /\ callers[c].xpc = "cleanup"
    /\ fsTemp' = fsTemp \ {callers[c].exec}
    /\ callers' = [callers EXCEPT ![c] =
           Reject(@, @.cause, WrapDownloadError(@.req[1], @.req[2], @.cause))]
    /\ UNCHANGED <<activeDownloads, metadataCache, nextExec, outsideDownload>>

(***************************************************************************)
(* downloadPackage, lines 56-62, resumed in the call that started the      *)
(* execution: the finally block deletes the key, then the call returns     *)
(* the result or rethrows.  This call awaits the promise in the run that   *)
(* creates it (line 57), before any other call can obtain it from          *)
(* activeDownloads, so its reaction is the first of the promise's          *)
(* reactions: the promises of the calls that joined (line 47) follow the   *)
(* settled promise after it; they take its outcome here and their          *)
(* callers resume in JoinerResumes.                                        *)
(***************************************************************************)
NeverDelete(active, key, ok) == active

DeleteOnlyOnSuccess(active, key, ok) ==
    IF ok THEN [k \in DOMAIN active \ {key} |-> active[k]] ELSE active

FinallyDelete(active, key, ok) ==
    [k \in DOMAIN active \ {key} |-> active[k]]

InitiatorResumes(c) ==
    /\ Settled(c)
    /\ activeDownloads' = FinallyDelete(activeDownloads, KeyOf(callers[c].req),
                                        callers[c].status = "ok")
    /\ callers' = [d \in Callers |->
           IF d = c
           THEN [callers[c] EXCEPT !.pc = "returned", !.on = "", !.xpc = "none"]
           ELSE IF callers[d].pc = "awaitJoin" /\ callers[d].on = c
           THEN [callers[d] EXCEPT !.pc = "joinSettled", !.on = "",
                    !.cause = callers[c].cause,
                    !.status = callers[c].status,
                    !.error = callers[c].error]
           ELSE callers[d]]
    /\ UNCHANGED <<metadataCache, nextExec, fsTemp, outsideDownload>>

JoinerResumes(c) ==
    /\ callers[c].pc = "joinSettled"
    /\ callers' = [callers EXCEPT ![c].pc = "returned"]
    /\ UNCHANGED <<activeDownloads, metadataCache, nextExec, fsTemp,
                   outsideDownload>>

DlInit ==
    /\ activeDownloads = << >>
    /\ metadataCache = {}
    /\ nextExec = 0
    /\ callers = [c \in Callers |-> IdleCaller]
    /\ fsTemp = {}

DlNext ==
    \/ \E c \in Callers, req \in DlRequests : DownloadPackageCall(c, req)
    \/ \E c \in Callers : FetchMetadataReturns(c)
    \/ \E c \in Callers : CachedMetadataReturns(c)
    \/ \E c \in Callers : MkdirTempReturns(c)
    \/ \E c \in Callers : MkdirTargetReturns(c)
    \/ \E c \in Callers : FetchTarballReturns(c)
    \/ \E c \in Callers : PipelineReturns(c)
    \/ \E c \in Callers : ExtractReturns(c)
    \/ \E c \in Callers : RemoveTempReturns(c)
    \/ \E c \in Callers : CatchCleanupReturns(c)
    \/ \E c \in Callers : InitiatorResumes(c)
    \/ \E c \in Callers : JoinerResumes(c)

(***************************************************************************)
(* The dependency resolver, src/unnamed/part_003 lines 92-197.             *)
(*                                                                         *)
(* Versions and ranges are the strings the code handles.  Ver and          *)
(* ParseRange are what the semver package parses them to; Satisfies and    *)
(* MaxSatisfying are semver.satisfies and semver.maxSatisfying.            *)
(***************************************************************************)
MaxDepth == 100

MaxDeps == 2

Ver(s) ==
    CASE s = "1.0.0" -> <<1, 0, 0>>
      [] s = "1.1.0" -> <<1, 1, 0>>
      [] s = "2.0.0" -> <<2, 0, 0>>
      [] s = "3.0.0" -> <<3, 0, 0>>

ParseRange(range) ==
    CASE range = "^1.0.0" -> [op |-> "^", v |-> <<1, 0, 0>>]
      [] range = "^2.0.0" -> [op |-> "^", v |-> <<2, 0, 0>>]
      [] range = ">1.0.0" -> [op |-> ">", v |-> <<1, 0, 0>>]
      [] range = ">2.0.0" -> [op |-> ">", v |-> <<2, 0, 0>>]
      [] range = "~1.0.0" -> [op |-> "~", v |-> <<1, 0, 0>>]
      [] range = "*"      -> [op |-> "*", v |-> <<0, 0, 0>>]
      [] OTHER            -> [op |-> "invalid", v |-> <<0, 0, 0>>]

VLess(a, b) ==
    \/ a[1] < b[1]
    \/ a[1] = b[1] /\ a[2] < b[2]
    \/ a[1] = b[1] /\ a[2] = b[2] /\ a[3] < b[3]

VLeq(a, b) == a = b \/ VLess(a, b)

\* The first version a caret range excludes: the next change of the
\* leftmost non-zero component.
CaretUpper(v) ==
    IF v[1] > 0 THEN <<v[1] + 1, 0, 0>>
    ELSE IF v[2] > 0 THEN <<0, v[2] + 1, 0>>
    ELSE <<0, 0, v[3] + 1>>

Satisfies(version, range) ==
    LET r == ParseRange(range)
        v == Ver(version)
    IN  CASE r.op = "*"  -> TRUE
          [] r.op = "^"  -> VLeq(r.v, v) /\ VLess(v, CaretUpper(r.v))
          [] r.op = "~"  -> VLeq(r.v, v) /\ VLess(v, <<r.v[1], r.v[2] + 1, 0>>)
          [] r.op = ">"  -> VLess(r.v, v)
          [] r.op = ">=" -> VLeq(r.v, v)
          [] r.op = "="  -> v = r.v
          [] OTHER       -> FALSE

\* semver.maxSatisfying: the highest version of the list in the range, or
\* null (modelled as "").
MaxSatisfying(versionList, range) ==
    LET ok == {s \in versionList : Satisfies(s, range)}
    IN  IF ok = {} THEN ""
        ELSE CHOOSE s \in ok : \A t \in ok : VLeq(Ver(t), Ver(s))

\* Line 187, range.replace(/[^0-9.]/g, ''): the digits and dots of the range.
CleanRange(range) ==
    CASE range = "^1.0.0" -> "1.0.0"
      [] range = "^2.0.0" -> "2.0.0"
      [] range = ">1.0.0" -> "1.0.0"
      [] range = ">2.0.0" -> "2.0.0"
      [] range = "~1.0.0" -> "1.0.0"
      [] OTHER            -> ""

(***************************************************************************)
(* selectVersion, lines 174-194.                                           *)
(***************************************************************************)
selectVersion(versionList, range) ==
    IF range = "*" \/ range = "latest"
    THEN MaxSatisfying(versionList, "*")
    ELSE LET matched == MaxSatisfying(versionList, range)
         IN  IF matched = "" /\ CleanRange(range) \in versionList
             THEN CleanRange(range)
             ELSE matched

(***************************************************************************)
(* What the metadata provider serves: for each package name its versions,  *)
(* each with its declared dependencies in declaration order.  pkg-a and    *)
(* pkg-b form the cycle and shared-dep is the shared dependency of the     *)
(* tests (resolver.test.js lines 163-197, 307-350); app requires           *)
(* shared-dep through p and q at ^1.0.0 and through m at ^2.0.0; g         *)
(* requires y at a range above y's only version; n requires z at a range   *)
(* no version of z is in; the record of e has no versions.                 *)
(***************************************************************************)
NoDeps == << >>

Registry ==
    [name \in {"pkg-a", "pkg-b", "shared-dep", "p", "q", "m", "app", "g", "y",
               "n", "z", "e"} |->
        CASE name = "pkg-a" -> ("1.0.0" :> << <<"pkg-b", "^1.0.0">> >>)
          [] name = "pkg-b" -> ("1.0.0" :> << <<"pkg-a", "^1.0.0">> >>)
          [] name = "shared-dep" ->
                 ("1.0.0" :> NoDeps) @@ ("1.1.0" :> NoDeps) @@ ("2.0.0" :> NoDeps)
          [] name = "p" -> ("1.0.0" :> << <<"shared-dep", "^1.0.0">> >>)
          [] name = "q" -> ("1.0.0" :> << <<"shared-dep", "^1.0.0">> >>)
          [] name = "m" -> ("1.0.0" :> << <<"shared-dep", "^2.0.0">> >>)
          [] name = "app" ->
                 ("1.0.0" :> << <<"p", "^1.0.0">>, <<"m", "^1.0.0">>,
                                <<"q", "^1.0.0">> >>)
          [] name = "g" -> ("1.0.0" :> << <<"y", ">1.0.0">> >>)
          [] name = "y" -> ("1.0.0" :> NoDeps)
          [] name = "n" -> ("1.0.0" :> << <<"z", "^1.0.0">> >>)
          [] name = "z" -> ("3.0.0" :> NoDeps)
          [] name = "e" -> << >>]

\* The requests a dependency map given to resolve is made of.
TopRequests ==
    { <<"pkg-a", "^1.0.0">>, <<"app", "^1.0.0">>, <<"p", "^1.0.0">>,
      <<"m", "^1.0.0">>, <<"shared-dep", "*">>, <<"g", "^1.0.0">>,
      <<"n", "^1.0.0">>, <<"e", "^1.0.0">> }

\* The depths resolveDependency is entered with when called directly.
EntryDepths == {0, MaxDepth - 1, MaxDepth, MaxDepth + 1}

RECURSIVE DepMaps(_)
\* The dependency maps of at most k entries, as the sequence of their
\* entries in insertion order: no name occurs twice.
DepMaps(k) ==
    IF k = 0 THEN {<< >>}
    ELSE LET shorter == DepMaps(k - 1) IN
         shorter \cup
         UNION { { Append(d, req) :
                     req \in {r \in TopRequests :
                                \A i \in 1..Len(d) : d[i][1] # r[1]} } :
                 d \in {x \in shorter : Len(x) = k - 1} }

(***************************************************************************)
(* The state of one resolve (or direct resolveDependency) call.            *)
(*   status  "idle", "running", "done" (returned), "failed" (threw)        *)
(*   tree    the tree object of line 102: name -> [version, dependencies]  *)
(*   memo    this.resolved while the call computes (written back to the    *)
(*           variable resolved by every action)                            *)
(*   queue   the entries of the dependency map not yet iterated (line 106) *)
(*   stack   the resolveDependency invocations that have not returned,     *)
(*           innermost last; pc "meta": awaiting getPackageMetadata (line  *)
(*           139); pc "loop": in the loop of lines 161-163, rest being the *)
(*           dependencies not yet iterated                                 *)
(*   log     history: the requests answered so far, in order, each with    *)
(*           how it was answered ("memo": lines 122-128, "tree": lines     *)
(*           131-135, "query": lines 139-155) and the version tree[name]   *)
(*           held before and after ("" when absent)                        *)
(*   input, memo0, entry   history: the arguments of the call, the memo    *)
(*           at its start, and "resolve" or "resolveDependency"            *)
(*   fast    history: for every request answered at lines 122-135, its     *)
(*           index in log, tree and memo before and after it, and the      *)
(*           value it returned                                             *)
(*   thrownBy   history: name, range and depth of the resolveDependency    *)
(*           invocation that threw, and the source line it threw at        *)
(*   failedBefore   history: the input of the call made on the Resolver    *)
(*           before this one, when that was a resolve call that threw at   *)
(*           line 143 (no matching version); empty otherwise               *)
(***************************************************************************)
EmptyMap == << >>

IdleResolve ==
    [status |-> "idle", error |-> "", tree |-> EmptyMap, memo |-> EmptyMap,
     queue |-> << >>, stack |-> << >>, log |-> << >>,
     input |-> << >>, memo0 |-> EmptyMap, entry |-> "",
     fast |-> << >>, thrownBy |-> << >>, failedBefore |-> << >>]

Put(f, k, v) == (k :> v) @@ f

VersionIn(tree, name) == IF name \in DOMAIN tree THEN tree[name].version ELSE ""

\* Line 121.
cacheKey(name, versionRange) == name \o "@" \o versionRange

\* A catch block that wraps the error it caught into a new one.
RethrownWrapped(error) == "Failed to resolve: " \o error

\* Lines 167-170: the catch block logs the error and throws it again.
Rethrown(error) == error

\* The error after it has passed the catch blocks of n invocations.
RECURSIVE Propagate(_, _)
Propagate(error, n) ==
    IF n = 0 THEN error ELSE Propagate(Rethrown(error), n - 1)

\* An error thrown in or below the innermost invocation passes the catch
\* block of every invocation on the stack and leaves resolve (line 107,
\* no catch).
Throw(x, message) ==
    [x EXCEPT !.status = "failed",
              !.error = Propagate(message, Len(x.stack)),
              !.stack = << >>]

ThrownBy(x, name, range, depth, line) ==
    [x EXCEPT !.thrownBy = <<name, range, depth, line>>]

\* Lines 127 and 133: a request answered from the memo or from the tree
\* returns; before is the call before the request.
Fast(x, before, value) ==
    [x EXCEPT !.fast = Append(@, [index |-> Len(x.log),
                                  treeBefore |-> before.tree,
                                  memoBefore |-> before.memo,
                                  treeAfter |-> x.tree,
                                  memoAfter |-> x.memo,
                                  value |-> value])]

Logged(x, name, range, depth, how, before) ==
    [x EXCEPT !.log = Append(@, [name |-> name, range |-> range,
                                 depth |-> depth, how |-> how,
                                 before |-> before,
                                 after |-> VersionIn(x.tree, name)])]

\* A guard that gives up at the second nested request.
DepthExceededAtOne(depth) == depth > 1

\* A guard that already rejects the bound itself.
DepthExceededAtBound(depth) == depth >= MaxDepth

\* Line 116.
DepthExceeded(depth) == depth > MaxDepth

\* Line 122.
\* A memo that is never found to hold a key.
MemoNeverHas(memo, key) == FALSE

MemoHas(memo, key) == key \in DOMAIN memo

\* A memoized request that overwrites tree[name].
MemoHitOverwrites(tree, name, resolvedVersion) ==
    Put(tree, name, [version |-> resolvedVersion, dependencies |-> NoDeps])

\* Lines 124-126: a memoized request creates tree[name] only when absent.
MemoHitTree(tree, name, resolvedVersion) ==
    IF name \notin DOMAIN tree
    THEN Put(tree, name, [version |-> resolvedVersion, dependencies |-> NoDeps])
    ELSE tree

(***************************************************************************)
(* resolveDependency, lines 114-139, entered by its caller and run to its  *)
(* first await or to its return: the depth guard, the memo lookup, the     *)
(* check of the tree, or the metadata query of line 139 is issued.         *)
(***************************************************************************)
Invoke(x, name, range, depth) ==
    IF DepthExceeded(depth)
    THEN ThrownBy(Throw(x, "Circular dependency detected: " \o name),
                  name, range, depth, 117)
    ELSE IF MemoHas(x.memo, cacheKey(name, range))
    THEN Fast(Logged([x EXCEPT !.tree =
                         MemoHitTree(@, name, x.memo[cacheKey(name, range)])],
                     name, range, depth, "memo", VersionIn(x.tree, name)),
              x, x.memo[cacheKey(name, range)])
    ELSE IF name \in DOMAIN x.tree /\ Satisfies(x.tree[name].version, range)
    THEN Fast(Logged(x, name, range, depth, "tree", VersionIn(x.tree, name)),
              x, x.tree[name].version)
    ELSE [x EXCEPT !.stack = Append(@, [name |-> name, range |-> range,
                                        depth |-> depth, pc |-> "meta",
                                        version |-> "", rest |-> << >>])]

(***************************************************************************)
(* The loops of lines 106-108 (resolve, when the stack is empty) and of    *)
(* lines 161-166 (resolveDependency): the awaited call has returned; the   *)
(* next entry is taken and resolveDependency entered, or the loop is over  *)
(* and the function returns.                                               *)
(***************************************************************************)
\* An iteration that starts from the last entry.
NextEntryLast(entries) == entries[Len(entries)]

\* Object.entries iterates in insertion order (lines 106, 161).
NextEntry(entries) == Head(entries)

RestAfter(entries) == Tail(entries)

LoopStep(x) ==
    IF x.stack = << >>
    THEN IF x.queue = << >>
         THEN [x EXCEPT !.status = "done"]
         ELSE Invoke([x EXCEPT !.queue = RestAfter(@)],
                     NextEntry(x.queue)[1], NextEntry(x.queue)[2], 0)
    ELSE LET n == Len(x.stack)
             f == x.stack[n]
         IN  IF f.rest = << >>
             THEN [x EXCEPT !.stack = SubSeq(@, 1, n - 1)]
             ELSE Invoke([x EXCEPT !.stack[n].rest = RestAfter(@)],
                         NextEntry(f.rest)[1], NextEntry(f.rest)[2], f.depth + 1)

(***************************************************************************)
(* resolveDependency, lines 139-166, resumed with the metadata: the        *)
(* version is selected; none: the error of line 143; else tree[name] is    *)
(* overwritten (lines 149-152), the memo entry written (line 155) and the  *)
(* loop over the version's dependencies entered.                           *)
(***************************************************************************)
MetadataStep(x) ==
    LET n == Len(x.stack)
        f == x.stack[n]
        versions == Registry[f.name]
        version == selectVersion(DOMAIN versions, f.range)
    IN  IF version = ""
        THEN ThrownBy(Throw(x, "No matching version found for "
                                   \o f.name \o "@" \o f.range),
                      f.name, f.range, f.depth, 143)
        ELSE LoopStep(
               Logged([x EXCEPT
                         !.tree = Put(@, f.name,
                                      [version |-> version,
                                       dependencies |-> versions[version]]),
                         !.memo = Put(@, cacheKey(f.name, f.range), version),
                         !.stack[n] = [f EXCEPT !.pc = "loop",
                                                !.version = version,
                                                !.rest = versions[version]]],
                      f.name, f.range, f.depth, "query", VersionIn(x.tree, f.name)))

NewCall(entry, input) ==
    [IdleResolve EXCEPT !.status = "running", !.memo = resolved,
                        !.memo0 = resolved, !.entry = entry, !.input = input,
                        !.failedBefore =
                            IF /\ rs.entry = "resolve"
                               /\ rs.status = "failed"
                               /\ rs.thrownBy[4] = 143
                            THEN rs.input ELSE << >>]

\* A Resolver is followed through its calls one after the other, up to and
\* including the first call that starts with a memo that is not empty.
\*
\* resolve(dependencies), lines 101-111, up to its first await.
ResolveCall(dependencies) ==
    /\ rs.status \in {"idle", "done", "failed"}
    /\ rs.memo0 = EmptyMap
    /\ LET x == LoopStep([NewCall("resolve", dependencies)
                              EXCEPT !.queue = dependencies])
       IN  /\ rs' = x
           /\ resolved' = x.memo
    /\ UNCHANGED outsideResolver

\* resolveDependency(name, versionRange, {}, depth) called directly, as the
\* tests do (resolver.test.js lines 133-197), up to its first await.
ResolveDependencyCall(name, versionRange, depth) ==
    /\ rs.status \in {"idle", "done", "failed"}
    /\ rs.memo0 = EmptyMap
    /\ LET x == Invoke([NewCall("resolveDependency", << <<name, versionRange>> >>)
                            EXCEPT !.input = << <<name, versionRange, depth>> >>],
                       name, versionRange, depth)
       IN  /\ rs' = x
           /\ resolved' = x.memo
    /\ UNCHANGED outsideResolver

\* getPackageMetadata returns to the innermost resolveDependency.
MetadataReturns ==
    /\ rs.status = "running"
    /\ rs.stack # << >>
    /\ rs.stack[Len(rs.stack)].pc = "meta"
    /\ LET x == MetadataStep(rs)
       IN  /\ rs' = x
           /\ resolved' = x.memo
    /\ UNCHANGED outsideResolver

\* The caller awaiting a resolveDependency call that has returned resumes.
AwaitReturns ==
    /\ rs.status = "running"
    /\ IF rs.stack = << >> THEN TRUE ELSE rs.stack[Len(rs.stack)].pc = "loop"
    /\ LET x == LoopStep(rs)
       IN  /\ rs' = x
           /\ resolved' = x.memo
    /\ UNCHANGED outsideResolver

\* registry-client.js line 37: the error getPackageMetadata throws.
ProviderError(name) == "Error fetching " \o name

\* Line 139: getPackageMetadata rejects, and the innermost resolveDependency
\* goes to its catch block.
MetadataFails ==
    /\ rs.status = "running"
    /\ rs.stack # << >>
    /\ rs.stack[Len(rs.stack)].pc = "meta"
    /\ LET f == rs.stack[Len(rs.stack)]
       IN  rs' = ThrownBy(Throw(rs, ProviderError(f.name)),
                          f.name, f.range, f.depth, 139)
    /\ UNCHANGED <<resolved, outsideResolver>>

RsInit ==
    /\ resolved = EmptyMap
    /\ rs = IdleResolve

RsNext ==
    \/ \E deps \in DepMaps(MaxDeps) : ResolveCall(deps)
    \/ \E req \in TopRequests, depth \in EntryDepths :
           ResolveDependencyCall(req[1], req[2], depth)
    \/ MetadataReturns
    \/ AwaitReturns

(***************************************************************************)
(* selectVersion called on its own, as the tests do (resolver.test.js      *)
(* lines 216-304): versions are the keys of the versions object, range     *)
(* the range expression.                                                   *)
(***************************************************************************)
AllVersions == {"1.0.0", "1.1.0", "2.0.0", "3.0.0"}

Ranges == {"^1.0.0", "^2.0.0", "~1.0.0", ">1.0.0", ">2.0.0", "*", "latest"}

NoSelect == [called |-> FALSE, versions |-> {}, range |-> "", result |-> ""]

SelectVersionCall(versions, range) ==
    /\ sv' = [called |-> TRUE, versions |-> versions, range |-> range,
              result |-> selectVersion(versions, range)]
    /\ UNCHANGED outsideSelect

SvInit == sv = NoSelect

SvNext ==
    \E versions \in SUBSET AllVersions, range \in Ranges :
        SelectVersionCall(versions, range)

(***************************************************************************)
(* The store, src/src/cache-manager.js, and FastCache.clean,               *)
(* src/unnamed/part_002 lines 146-178.                                     *)
(*                                                                         *)
(* The store directory is the map slots from slot path to the files in the *)
(* directory; the metadata directory is the map metaFiles from file name   *)
(* to the parsed record (field name -> value).  A path or file name not in *)
(* the domain does not exist.  Time is counted in days; a timestamp as     *)
(* toISOString writes it is <<"T", day>>.  One store operation runs at a   *)
(* time; hasPackage is asked, and the clock advances, between its steps.   *)
(***************************************************************************)
MaxOps == 4

MaxClock == 1

\* The identities callers use: a plain name, a name that contains ".json",
\* a scoped name.
StIds ==
    { <<"lodash", "1.0.0">>, <<"cfg.json", "1.0.0">>,
      <<"@babel/core", "7.0.0">> }

\* The files of every package source directory, with their byte sizes.
SourceFiles == {"package.json", "index.js"}

FileSize(f) == IF f = "package.json" THEN 2 ELSE 3

\* The patches callers give to updateMetadata.
Patches ==
    { ("note" :> "a"),
      ("note" :> "b") @@ ("lastUsed" :> <<"T", 0>>) }

\* The arguments of findUnused and clean.
DaysArgs == {0, 1}

toISOString(t) == <<"T", t>>

\* Line 119, new Date(data.lastUsed) < cutoffDate: false for the Invalid
\* Date of a record without lastUsed.
Unused(data, cutoffDate) ==
    "lastUsed" \in DOMAIN data /\ data["lastUsed"][2] < cutoffDate

\* Lines 23-29: the first 16 hex digits of sha256(name@version).
getPackageHash(name, version) == "sha256(" \o name \o "@" \o version \o ")"

\* Lines 32-35.
getPackagePath(name, version) ==
    "store/" \o name \o "@" \o version \o "-" \o getPackageHash(name, version)

\* Lines 74, 135.
metaPath(name, version) == name \o "@" \o version \o ".json"

\* path.join(metadataDir, file) exists only under an existing directory:
\* a scoped name puts the file in a directory @scope that nothing creates.
MetaDirExists(name) == name # "@babel/core"

\* Line 120, metaFile.replace('.json', ''): the first occurrence of
\* ".json" is removed.
ReplaceDotJson(metaFile) ==
    CASE metaFile = "lodash@1.0.0.json"   -> "lodash@1.0.0"
      [] metaFile = "cfg.json@1.0.0.json" -> "cfg@1.0.0.json"
      [] OTHER                            -> metaFile

\* part_002 line 172, const [name, version] = pkg.name.split('@').
SplitAt(pkgName) ==
    CASE pkgName = "lodash@1.0.0"   -> <<"lodash", "1.0.0">>
      [] pkgName = "cfg@1.0.0.json" -> <<"cfg", "1.0.0.json">>
      [] pkgName = "cfg.json@1.0.0" -> <<"cfg.json", "1.0.0">>
      [] pkgName = "@babel/core@7.0.0" -> <<"", "babel/core">>
      [] OTHER                      -> <<pkgName, "">>

RECURSIVE SumSizes(_)
SumSizes(files) ==
    IF files = {} THEN 0
    ELSE LET f == CHOOSE f \in files : TRUE
         IN  FileSize(f) + SumSizes(files \ {f})

\* A size that is never computed.
NoDirectorySize(dirs, dirPath) == 0

\* Lines 148-166: the byte size of a directory, 0 when it does not exist.
getDirectorySize(dirs, dirPath) ==
    IF dirPath \in DOMAIN dirs THEN SumSizes(dirs[dirPath]) ELSE 0

\* A merge that forgets the record, and one in which the record wins.
PatchOnly(metadata, data) == data

OldWins(metadata, data) ==
    [k \in DOMAIN metadata \cup DOMAIN data |->
        IF k \in DOMAIN metadata THEN metadata[k] ELSE data[k]]

\* Line 84, { ...metadata, ...data }.
Merge(metadata, data) ==
    [k \in DOMAIN metadata \cup DOMAIN data |->
        IF k \in DOMAIN data THEN data[k] ELSE metadata[k]]

Without(f, k) == [x \in DOMAIN f \ {k} |-> f[x]]

\* readdir of the metadata directory: the file names in name order.
FileRank(metaFile) ==
    CASE metaFile = "cfg.json@1.0.0.json" -> 1
      [] metaFile = "lodash@1.0.0.json"   -> 2
      [] OTHER                            -> 3

RECURSIVE Listing(_)
Listing(names) ==
    IF names = {} THEN << >>
    ELSE LET first == CHOOSE n \in names :
                          \A o \in names : FileRank(n) <= FileRank(o)
         IN  <<first>> \o Listing(names \ {first})

IdleOp ==
    [kind |-> "none", pc |-> "idle", name |-> "", version |-> "",
     data |-> << >>, metadata |-> << >>, started |-> 0, days |-> 0,
     dryRun |-> FALSE, cutoff |-> 0, queue |-> << >>, toDelete |-> << >>,
     result |-> "", slotRm |-> "none", metaRm |-> "none",
     rmFailed |-> FALSE,
     slots0 |-> << >>, meta0 |-> << >>]

OpIdle == op.pc \in {"idle", "returned", "threw"}

Begin(kind, name, version) ==
    [IdleOp EXCEPT !.kind = kind, !.name = name, !.version = version,
                   !.started = clock, !.slots0 = slots, !.meta0 = metaFiles]

Returns(o, result) == [o EXCEPT !.pc = "returned", !.result = result]

Throws(o, error) == [o EXCEPT !.pc = "threw", !.result = error]

FilesAt(dirPath) == IF dirPath \in DOMAIN slots THEN slots[dirPath] ELSE {}

\* Lines 38-46: fs.access of the slot path.
hasPackage(name, version) == getPackagePath(name, version) \in DOMAIN slots

\* storePackage, lines 49-53: fs.cp is issued.
StorePackageCall(name, version) ==
    /\ OpIdle /\ opCount < MaxOps
    /\ opCount' = opCount + 1
    /\ op' = [Begin("storePackage", name, version) EXCEPT !.pc = "cp"]
    /\ UNCHANGED <<slots, metaFiles, clock, stored, outsideStore>>

\* fs.cp at work: the slot directory exists and holds the first file.
CopyProgress ==
    /\ op.pc = "cp"
    /\ "package.json" \notin FilesAt(getPackagePath(op.name, op.version))
    /\ slots' = Put(slots, getPackagePath(op.name, op.version),
                    FilesAt(getPackagePath(op.name, op.version))
                        \cup {"package.json"})
    /\ UNCHANGED <<metaFiles, clock, op, opCount, stored, outsideStore>>

\* Line 53: fs.cp returns, every file copied, or throws; lines 56-59: the
\* timestamps are taken and getDirectorySize is called.
CopyReturns ==
    /\ op.pc = "cp"
    /\ \/ /\ slots' = Put(slots, getPackagePath(op.name, op.version),
                          FilesAt(getPackagePath(op.name, op.version))
                              \cup SourceFiles)
          /\ op' = [op EXCEPT !.pc = "size",
                       !.data = ("installedAt" :> toISOString(clock))
                                @@ ("lastUsed" :> toISOString(clock))]
       \/ /\ op' = Throws(op, "ENOSPC")
          /\ UNCHANGED slots
    /\ UNCHANGED <<metaFiles, clock, opCount, stored, outsideStore>>

\* Line 59: getDirectorySize returns; lines 56, 73-78: updateMetadata is
\* called and reads the record.
SizeReturns ==
    /\ op.pc = "size"
    /\ op' = [op EXCEPT !.pc = "read",
                 !.data = @ @@ ("size" :> getDirectorySize(slots,
                                   getPackagePath(op.name, op.version)))]
    /\ UNCHANGED <<slots, metaFiles, clock, opCount, stored, outsideStore>>

\* updateMetadata, lines 73-78.
UpdateMetadataCall(name, version, data) ==
    /\ OpIdle /\ opCount < MaxOps
    /\ opCount' = opCount + 1
    /\ op' = [Begin("updateMetadata", name, version) EXCEPT
                 !.pc = "read", !.data = data]
    /\ UNCHANGED <<slots, metaFiles, clock, stored, outsideStore>>

\* touchPackage, lines 66-70, into updateMetadata.
TouchPackageCall(name, version) ==
    /\ OpIdle /\ opCount < MaxOps
    /\ opCount' = opCount + 1
    /\ op' = [Begin("touchPackage", name, version) EXCEPT
                 !.pc = "read", !.data = ("lastUsed" :> toISOString(clock))]
    /\ UNCHANGED <<slots, metaFiles, clock, stored, outsideStore>>

\* Lines 78-85: readFile returns the record or throws (no file: caught,
\* the record is {}); the merged record is given to writeFile.
ReadMetaReturns ==
    /\ op.pc = "read"
    /\ op' = [op EXCEPT !.pc = "write",
                 !.metadata =
                     Merge(IF metaPath(op.name, op.version) \in DOMAIN metaFiles
                           THEN metaFiles[metaPath(op.name, op.version)]
                           ELSE << >>,
                           op.data)]
    /\ UNCHANGED <<slots, metaFiles, clock, opCount, stored, outsideStore>>

\* Line 85: writeFile returns, or throws ENOENT where the directory of the
\* file does not exist; updateMetadata returns, and with it touchPackage
\* or storePackage (line 62).
WriteMetaReturns ==
    /\ op.pc = "write"
    /\ IF MetaDirExists(op.name)
       THEN /\ metaFiles' = Put(metaFiles, metaPath(op.name, op.version),
                                op.metadata)
            /\ op' = Returns(op, IF op.kind = "storePackage"
                                 THEN getPackagePath(op.name, op.version)
                                 ELSE "undefined")
            /\ stored' = IF op.kind = "storePackage"
                         THEN stored \cup {<<op.name, op.version>>}
                         ELSE stored
       ELSE /\ op' = Throws(op, "ENOENT")
            /\ UNCHANGED <<metaFiles, stored>>
    /\ UNCHANGED <<slots, clock, opCount, outsideStore>>

\* deletePackage, lines 133-138: fs.rm of the slot is issued.
DeletePackageCall(name, version) ==
    /\ OpIdle /\ opCount < MaxOps
    /\ opCount' = opCount + 1
    /\ op' = [Begin("deletePackage", name, version) EXCEPT !.pc = "rmSlot"]
    /\ UNCHANGED <<slots, metaFiles, clock, stored, outsideStore>>

\* part_002 lines 171-173: deletePackage is called for the next reported
\* package, with the name and version its name is split into.
NextDelete(o) ==
    [o EXCEPT !.name = SplitAt(Head(o.queue).name)[1],
              !.version = SplitAt(Head(o.queue).name)[2],
              !.pc = "rmSlot", !.slotRm = "none", !.metaRm = "none"]

\* deletePackage returns (lines 140, 143) to its caller; clean (part_002
\* lines 171-177) ignores the result and goes on to the next package.
AfterDelete(o, result) ==
    IF o.kind = "deletePackage" THEN Returns(o, result)
    ELSE IF Tail(o.queue) = << >>
    THEN Returns([o EXCEPT !.queue = << >>], "undefined")
    ELSE NextDelete([o EXCEPT !.queue = Tail(@)])

\* Line 138: fs.rm of the slot returns (force: a missing slot is no error)
\* and fs.rm of the record is issued, or it throws into the catch of line
\* 141.
RmSlotReturns ==
    /\ op.pc = "rmSlot"
    /\ \/ /\ slots' = Without(slots, getPackagePath(op.name, op.version))
          /\ op' = [op EXCEPT !.pc = "rmMeta", !.slotRm = "ok"]
       \/ /\ getPackagePath(op.name, op.version) \in DOMAIN slots
          /\ op' = AfterDelete([op EXCEPT !.slotRm = "failed",
                                           !.rmFailed = TRUE], "false")
          /\ UNCHANGED slots
    /\ UNCHANGED <<metaFiles, clock, opCount, stored, outsideStore>>

\* Line 139: fs.rm of the record returns, or throws into the catch.
RmMetaReturns ==
    /\ op.pc = "rmMeta"
    /\ \/ /\ metaFiles' = Without(metaFiles, metaPath(op.name, op.version))
          /\ op' = AfterDelete([op EXCEPT !.metaRm = "ok"], "true")
          /\ stored' = stored \ {<<op.name, op.version>>}
       \/ /\ metaPath(op.name, op.version) \in DOMAIN metaFiles
          /\ op' = AfterDelete([op EXCEPT !.metaRm = "failed",
                                           !.rmFailed = TRUE], "false")
          /\ UNCHANGED <<metaFiles, stored>>
    /\ UNCHANGED <<slots, clock, opCount, outsideStore>>

\* findUnused, lines 108-109: readdir of the metadata directory is issued.
FindUnusedCall(unusedDays) ==
    /\ OpIdle /\ opCount < MaxOps
    /\ opCount' = opCount + 1
    /\ op' = [Begin("findUnused", "", "") EXCEPT
                 !.pc = "readdir", !.days = unusedDays]
    /\ UNCHANGED <<slots, metaFiles, clock, stored, outsideStore>>

\* clean, part_002 lines 146-149, into findUnused.
CleanCall(unusedDays, dryRun) ==
    /\ OpIdle /\ opCount < MaxOps
    /\ opCount' = opCount + 1
    /\ op' = [Begin("clean", "", "") EXCEPT
                 !.pc = "readdir", !.days = unusedDays, !.dryRun = dryRun]
    /\ UNCHANGED <<slots, metaFiles, clock, stored, outsideStore>>

\* Line 129: findUnused returns; part_002 lines 151-173: clean returns
\* when nothing is reported or on a dry run, else calls deletePackage for
\* the first reported package.
AfterFind(o) ==
    IF o.kind = "findUnused" THEN Returns(o, "toDelete")
    ELSE IF o.toDelete = << >> \/ o.dryRun THEN Returns(o, "undefined")
    ELSE NextDelete([o EXCEPT !.queue = o.toDelete])

\* Lines 109-117: readdir returns, the cutoff date is computed and the
\* first record read.
ReaddirReturns ==
    /\ op.pc = "readdir"
    /\ LET o == [op EXCEPT !.queue = Listing(DOMAIN metaFiles),
                           !.cutoff = clock - op.days]
       IN  op' = IF o.queue = << >> THEN AfterFind(o)
                 ELSE [o EXCEPT !.pc = "scan"]
    /\ UNCHANGED <<slots, metaFiles, clock, opCount, stored, outsideStore>>

\* Lines 117-126: readFile returns the record of the next file; it is
\* reported when its lastUsed is before the cutoff date.
ScanFileReturns ==
    /\ op.pc = "scan"
    /\ LET metaFile == Head(op.queue)
           data == metaFiles[metaFile]
           o == [op EXCEPT
                    !.queue = Tail(@),
                    !.toDelete =
                        IF Unused(data, op.cutoff)
                        THEN Append(@, [name |-> ReplaceDotJson(metaFile),
                                        lastUsed |-> data["lastUsed"],
                                        size |-> IF "size" \in DOMAIN data
                                                 THEN data["size"] ELSE 0])
                        ELSE @]
       IN  op' = IF o.queue = << >> THEN AfterFind(o) ELSE o
    /\ UNCHANGED <<slots, metaFiles, clock, opCount, stored, outsideStore>>

\* A day passes.
Tick ==
    /\ clock < MaxClock
    /\ clock' = clock + 1
    /\ UNCHANGED <<slots, metaFiles, op, opCount, stored, outsideStore>>

\* After init (lines 15-20): the directories exist and are empty.
StInit ==
    /\ slots = << >>
    /\ metaFiles = << >>
    /\ clock = 0
    /\ op = IdleOp
    /\ opCount = 0
    /\ stored = {}

StNext ==
    \/ \E id \in StIds : StorePackageCall(id[1], id[2])
    \/ CopyProgress
    \/ CopyReturns
    \/ SizeReturns
    \/ \E id \in StIds, data \in Patches :
           UpdateMetadataCall(id[1], id[2], data)
    \/ \E id \in StIds : TouchPackageCall(id[1], id[2])
    \/ ReadMetaReturns
    \/ WriteMetaReturns
    \/ \E id \in StIds : DeletePackageCall(id[1], id[2])
    \/ RmSlotReturns
    \/ RmMetaReturns
    \/ \E unusedDays \in DaysArgs : FindUnusedCall(unusedDays)
    \/ \E unusedDays \in DaysArgs, dryRun \in BOOLEAN :
           CleanCall(unusedDays, dryRun)
    \/ ReaddirReturns
    \/ ScanFileReturns
    \/ Tick

(***************************************************************************)
(* LinkManager (src/src/link-manager.js).  tgt is what the file system     *)
(* holds at targetPath, parent whether the directory above it exists, lk   *)
(* the call of linkPackage in progress.  Every await of the code is one    *)
(* step, and every file system call may fail.                              *)
(***************************************************************************)
MaxLinks == 2

\* The cached paths linkPackage is called with: a path that does not exist,
\* a single file, a directory of files, a directory with a subdirectory.
Sources == {"missing", "file", "flat", "nested"}

SourceDirs(source) ==
    CASE source = "flat" -> {""}
      [] source = "nested" -> {"", "lib"}
      [] OTHER -> {}

\* fs.readdir(sourcePath, {withFileTypes: true}) of a directory of a source.
Entries(source, dir) ==
    CASE source = "flat" /\ dir = ""
             -> << [name |-> "package.json", isDirectory |-> FALSE],
                   [name |-> "index.js", isDirectory |-> FALSE] >>
      [] source = "nested" /\ dir = ""
             -> << [name |-> "package.json", isDirectory |-> FALSE],
                   [name |-> "lib", isDirectory |-> TRUE] >>
      [] source = "nested" /\ dir = "lib"
             -> << [name |-> "util.js", isDirectory |-> FALSE] >>
      [] OTHER -> << >>

\* path.join of a directory below the root of a tree and an entry name.
Join(dir, name) == IF dir = "" THEN name ELSE dir \o "/" \o name

SourceFilesOf(source) ==
    IF source = "file" THEN {""}
    ELSE UNION { { Join(d, Entries(source, d)[i].name) :
                     i \in { j \in 1..Len(Entries(source, d)) :
                               ~Entries(source, d)[j].isDirectory } } :
                 d \in SourceDirs(source) }

\* Nothing at the target.  Of what is there, files holds each file with the
\* way it was created and bytes each file with the source whose content it
\* has.
Absent == [kind |-> "absent", dirs |-> {}, files |-> {}, bytes |-> {}]

Strategies == <<"hardlink", "symlink", "copy">>

IdleLink ==
    [pc |-> "idle", source |-> "", attempts |-> << >>, raised |-> << >>,
     stack |-> << >>, result |-> "", error |-> "",
     linkFailed |-> {}, cause |-> "", raisedDepth |-> 0]

Frame(dir) == [dir |-> dir, pc |-> "stat", queue |-> << >>]

Top == lk.stack[Len(lk.stack)]

SetTop(stack, frame) == [stack EXCEPT ![Len(stack)] = frame]

InFrame(pc) ==
    /\ lk.pc = "hardlink"
    /\ lk.stack # << >>
    /\ Top.pc = pc

\* Lines 17-18: createHardLink returned to linkPackage.
ReturnsTag(l, tag) == [l EXCEPT !.pc = "returned", !.result = tag,
                                !.stack = << >>]

\* A cascade that goes from the hard links straight to the copy.
HardLinkRaisesToCopy(l) ==
    [l EXCEPT !.pc = "cp", !.stack = << >>,
              !.cause = l.stack[Len(l.stack)].pc,
              !.raisedDepth = Len(l.stack),
              !.raised = Append(@, "hardlink"),
              !.attempts = Append(@, "copy")]

\* Lines 19-22: createHardLink raised, whatever it created stays, and the
\* symbolic link is attempted.
HardLinkRaises(l) ==
    [l EXCEPT !.pc = "symlink", !.stack = << >>,
              !.cause = l.stack[Len(l.stack)].pc,
              !.raisedDepth = Len(l.stack),
              !.raised = Append(@, "hardlink"),
              !.attempts = Append(@, "symlink")]

\* Lines 44-58: the loop over the entries of the frame on top of the stack;
\* a frame whose entries are exhausted returns to the frame that called it
\* (line 49), the outermost one to linkPackage.
RECURSIVE Advance(_)
Advance(l) ==
    LET top == l.stack[Len(l.stack)]
        below == SubSeq(l.stack, 1, Len(l.stack) - 1)
    IN  IF top.queue = << >>
        THEN IF below = << >> THEN ReturnsTag(l, "hardlink")
             ELSE Advance([l EXCEPT !.stack =
                      SetTop(below, [below[Len(below)] EXCEPT
                                         !.queue = Tail(@)])])
        ELSE IF Head(top.queue).isDirectory
             THEN [l EXCEPT !.stack =
                      Append(@, Frame(Join(top.dir, Head(top.queue).name)))]
             ELSE [l EXCEPT !.stack = SetTop(@, [top EXCEPT !.pc = "link"])]

\* The entry of the frame on top is done.
EntryDone(l) ==
    Advance([l EXCEPT !.stack =
                 SetTop(@, [@[Len(@)] EXCEPT !.queue = Tail(@)])])

HeadPath == Join(Top.dir, Head(Top.queue).name)

\* A file created at a path of the target, by hard link or by copy.
WithFile(t, path, how) ==
    [t EXCEPT !.files = {f \in @ : f[1] # path} \cup {<<path, how>>},
              !.bytes = {b \in @ : b[1] # path} \cup {<<path, lk.source>>}]

\* A createHardLink that gives up when fs.link fails.
LinkFailsRaises(l) ==
    [l EXCEPT !.pc = "symlink", !.stack = << >>,
              !.cause = "link",
              !.raised = Append(@, "hardlink"),
              !.attempts = Append(@, "symlink")]

\* Lines 53-55: fs.link of the entry failed and the file is to be copied.
LinkFails(l) ==
    [l EXCEPT !.linkFailed =
                  @ \cup {Join(l.stack[Len(l.stack)].dir,
                               Head(l.stack[Len(l.stack)].queue).name)},
              !.stack = SetTop(@, [@[Len(@)] EXCEPT !.pc = "copyFile"])]

\* Line 6: linkPackage(cachedPath, targetPath) is called and awaits the
\* mkdir of line 8.
LinkPackageCall(source) ==
    /\ lk.pc \in {"idle", "returned", "threw"}
    /\ linkCount < MaxLinks
    /\ linkCount' = linkCount + 1
    /\ lk' = [IdleLink EXCEPT !.pc = "mkdirParent", !.source = source]
    /\ UNCHANGED <<tgt, parent, outsideLink>>

\* Line 8: the parent directory is created, or the mkdir fails and
\* linkPackage rejects before any strategy.
MkdirParentReturns ==
    /\ lk.pc = "mkdirParent"
    /\ \/ /\ parent' = TRUE
          /\ lk' = [lk EXCEPT !.pc = "rm"]
       \/ /\ ~parent
          /\ parent' = parent
          /\ lk' = [lk EXCEPT !.pc = "threw", !.error = "EACCES"]
    /\ UNCHANGED <<tgt, linkCount, outsideLink>>

\* Lines 11-17: what is at the target is removed, a failure being ignored,
\* and createHardLink is called: it awaits the stat of line 34.
RmTargetReturns ==
    /\ lk.pc = "rm"
    /\ \/ tgt' = Absent
       \/ tgt # Absent /\ tgt' = tgt
    /\ lk' = [lk EXCEPT !.pc = "hardlink", !.attempts = <<"hardlink">>,
                        !.stack = <<Frame("")>>]
    /\ UNCHANGED <<parent, linkCount, outsideLink>>

\* Lines 34-38 and 61: the stat of the source of a frame.
StatReturns ==
    /\ InFrame("stat")
    /\ \/ /\ lk.source \in {"flat", "nested"}
          /\ lk' = [lk EXCEPT !.stack = SetTop(@, [Top EXCEPT !.pc = "mkdir"])]
       \/ /\ lk.source = "file"
          /\ lk' = [lk EXCEPT !.stack =
                        SetTop(@, [Top EXCEPT !.pc = "linkSingle"])]
       \/ lk' = HardLinkRaises(lk)
    /\ UNCHANGED <<tgt, parent, linkCount, outsideLink>>

\* Lines 38-41: the directory of the frame is created in the target.
MkdirLinkDirReturns ==
    /\ InFrame("mkdir")
    /\ \/ /\ tgt.kind \in {"absent", "dir"}
          /\ tgt' = [tgt EXCEPT !.kind = "dir", !.dirs = @ \cup {Top.dir}]
          /\ lk' = [lk EXCEPT !.stack =
                        SetTop(@, [Top EXCEPT !.pc = "readdir"])]
       \/ /\ tgt' = tgt
          /\ lk' = HardLinkRaises(lk)
    /\ UNCHANGED <<parent, linkCount, outsideLink>>

\* Lines 41-52: the entries of the source directory are read and the loop
\* starts.
ReaddirSourceReturns ==
    /\ InFrame("readdir")
    /\ \/ lk' = Advance([lk EXCEPT !.stack =
                     SetTop(@, [Top EXCEPT !.pc = "entries",
                                    !.queue = Entries(lk.source, Top.dir)])])
       \/ lk' = HardLinkRaises(lk)
    /\ UNCHANGED <<tgt, parent, linkCount, outsideLink>>

\* Lines 52-55: the hard link of a file is created, or fs.link fails and
\* the file is to be copied.
LinkReturns ==
    /\ InFrame("link")
    /\ \/ /\ HeadPath \notin {f[1] : f \in tgt.files}
          /\ tgt' = WithFile(tgt, HeadPath, "link")
          /\ lk' = EntryDone(lk)
       \/ /\ tgt' = tgt
          /\ lk' = LinkFails(lk)
    /\ UNCHANGED <<parent, linkCount, outsideLink>>

\* Lines 55-57: the file is copied, or the copy fails and createHardLink
\* raises.
CopyFileReturns ==
    /\ InFrame("copyFile")
    /\ \/ /\ tgt' = WithFile(tgt, HeadPath, "copy")
          /\ lk' = EntryDone(lk)
       \/ /\ tgt' = tgt
          /\ lk' = HardLinkRaises(lk)
    /\ UNCHANGED <<parent, linkCount, outsideLink>>

\* Line 61: the source is a single file.
LinkSingleReturns ==
    /\ InFrame("linkSingle")
    /\ \/ /\ tgt.kind = "absent"
          /\ tgt' = [kind |-> "file", dirs |-> {}, files |-> {<<"", "link">>},
                     bytes |-> {<<"", lk.source>>}]
          /\ lk' = ReturnsTag(lk, "hardlink")
       \/ /\ tgt' = tgt
          /\ lk' = HardLinkRaises(lk)
    /\ UNCHANGED <<parent, linkCount, outsideLink>>

\* A symbolic link that replaces whatever is at the target.
SymlinkReplaces ==
    /\ lk.pc = "symlink"
    /\ \/ /\ tgt' = [tgt EXCEPT !.kind = "symlink"]
          /\ lk' = [lk EXCEPT !.pc = "returned", !.result = "symlink"]
       \/ /\ tgt' = tgt
          /\ lk' = [lk EXCEPT !.pc = "cp", !.raised = Append(@, "symlink"),
                              !.attempts = Append(@, "copy")]
    /\ UNCHANGED <<parent, linkCount, outsideLink>>

\* Lines 22-26: the symbolic link is created, which takes that nothing is
\* at the target, or fs.symlink fails and the copy is attempted.
SymlinkReturns ==
    /\ lk.pc = "symlink"
    /\ \/ /\ tgt.kind = "absent"
          /\ tgt' = [kind |-> "symlink", dirs |-> {}, files |-> {},
                     bytes |-> {}]
          /\ lk' = [lk EXCEPT !.pc = "returned", !.result = "symlink"]
       \/ /\ tgt' = tgt
          /\ lk' = [lk EXCEPT !.pc = "cp", !.raised = Append(@, "symlink"),
                              !.attempts = Append(@, "copy")]
    /\ UNCHANGED <<parent, linkCount, outsideLink>>

\* fs.cp refuses a destination file that is the source file itself, which
\* a hard link of it is.
SameFile(path) ==
    <<path, "link">> \in tgt.files /\ <<path, lk.source>> \in tgt.bytes

\* Lines 26-27: the source is copied, or fs.cp fails and linkPackage
\* rejects with its error.
CpReturns ==
    /\ lk.pc = "cp"
    /\ \/ /\ lk.source # "missing"
          /\ tgt.kind \in {"absent",
                           IF lk.source = "file" THEN "file" ELSE "dir"}
          /\ \A path \in SourceFilesOf(lk.source) : ~SameFile(path)
          /\ tgt' = [kind |-> IF lk.source = "file" THEN "file" ELSE "dir",
                     dirs |-> tgt.dirs \cup SourceDirs(lk.source),
                     files |-> {f \in tgt.files :
                                   f[1] \notin SourceFilesOf(lk.source)}
                               \cup {<<p, "copy">> :
                                       p \in SourceFilesOf(lk.source)},
                     bytes |-> {b \in tgt.bytes :
                                   b[1] \notin SourceFilesOf(lk.source)}
                               \cup {<<p, lk.source>> :
                                       p \in SourceFilesOf(lk.source)}]
          /\ lk' = [lk EXCEPT !.pc = "returned", !.result = "copy"]
       \/ /\ tgt' = tgt
          /\ lk' = [lk EXCEPT !.pc = "threw", !.raised = Append(@, "copy"),
                              !.error = "cp failed"]
    /\ UNCHANGED <<parent, linkCount, outsideLink>>

LkInit ==
    /\ lk = IdleLink
    /\ tgt = Absent
    /\ parent = FALSE
    /\ linkCount = 0

LkNext ==
    \/ \E source \in Sources : LinkPackageCall(source)
    \/ MkdirParentReturns
    \/ RmTargetReturns
    \/ StatReturns
    \/ MkdirLinkDirReturns
    \/ ReaddirSourceReturns
    \/ LinkReturns
    \/ CopyFileReturns
    \/ LinkSingleReturns
    \/ SymlinkReturns
    \/ CpReturns

(***************************************************************************)
(* Two resolve calls on one DependencyResolver.  this.resolved is created  *)
(* by the constructor (line 97) and is the memo of every call; the tree    *)
(* is the object of line 102 of each call.  A call runs from one await to  *)
(* the next without interruption; at an await the other call may run.      *)
(***************************************************************************)
Resolves == {"r1", "r2"}

\* The dependency maps the two calls are given.
ConcurrentInputs ==
    { << <<"app", "^1.0.0">> >>, << <<"p", "^1.0.0">> >>,
      << <<"m", "^1.0.0">> >>, << <<"shared-dep", "*">> >> }

IdleConcurrent == [overlapped |-> FALSE] @@ IdleResolve

\* The call c as it runs its next segment: this.resolved is what every
\* call has written so far.
Resumed(c) == [cr[c] EXCEPT !.memo = crMemo]

Stepped(c, x) ==
    /\ cr' = [cr EXCEPT ![c] = x]
    /\ crMemo' = x.memo
    /\ UNCHANGED outsideConcurrent

\* resolve(dependencies), lines 101-111, up to its first await.
ConcurrentResolveCall(c, dependencies) ==
    /\ cr[c].status = "idle"
    /\ LET running == \E d \in Resolves : cr[d].status = "running"
           x == LoopStep([IdleConcurrent EXCEPT
                              !.status = "running", !.memo = crMemo,
                              !.memo0 = crMemo, !.entry = "resolve",
                              !.input = dependencies, !.queue = dependencies,
                              !.overlapped = running])
       IN  /\ cr' = [d \in Resolves |->
                       IF d = c THEN x
                       ELSE IF cr[d].status = "running"
                            THEN [cr[d] EXCEPT !.overlapped = TRUE]
                            ELSE cr[d]]
           /\ crMemo' = x.memo
    /\ UNCHANGED outsideConcurrent

\* getPackageMetadata returns to the innermost resolveDependency of c.
ConcurrentMetadataReturns(c) ==
    /\ cr[c].status = "running"
    /\ cr[c].stack # << >>
    /\ cr[c].stack[Len(cr[c].stack)].pc = "meta"
    /\ Stepped(c, MetadataStep(Resumed(c)))

\* The caller in c awaiting a resolveDependency call that has returned
\* resumes.
ConcurrentAwaitReturns(c) ==
    /\ cr[c].status = "running"
    /\ IF cr[c].stack = << >> THEN TRUE
       ELSE cr[c].stack[Len(cr[c].stack)].pc = "loop"
    /\ Stepped(c, LoopStep(Resumed(c)))

CrInit ==
    /\ cr = [c \in Resolves |-> IdleConcurrent]
    /\ crMemo = EmptyMap

CrNext ==
    \/ \E c \in Resolves, deps \in ConcurrentInputs :
           ConcurrentResolveCall(c, deps)
    \/ \E c \in Resolves : ConcurrentMetadataReturns(c)
    \/ \E c \in Resolves : ConcurrentAwaitReturns(c)

(***************************************************************************)
(* RegistryClient.getPackageMetadata (registry-client.js lines 17-39),     *)
(* called by several callers of one RegistryClient.  mdCache is            *)
(* this.metadataCache with the records it holds, a record being named by   *)
(* the fetch that brought it; fetches counts, per name, the fetches that   *)
(* brought a record.                                                       *)
(***************************************************************************)
MaxMdCalls == 3

MdCallers == {"g1", "g2"}

MdNames == {"lodash", "react"}

IdleMd == [pc |-> "idle", name |-> "", result |-> << >>, error |-> "",
           cached |-> FALSE, fetched |-> FALSE]

\* Lines 17-26: the cache is looked up; a record found is returned, else
\* the fetch of line 26 is issued.
GetPackageMetadataCall(c, packageName) ==
    /\ mdCalls[c].pc \in {"idle", "returned", "threw"}
    /\ mdCount < MaxMdCalls
    /\ mdCount' = mdCount + 1
    /\ mdCalls' = [mdCalls EXCEPT ![c] =
           IF packageName \in DOMAIN mdCache
           THEN [IdleMd EXCEPT !.pc = "returned", !.name = packageName,
                               !.cached = TRUE,
                               !.result = mdCache[packageName]]
           ELSE [IdleMd EXCEPT !.pc = "fetch", !.name = packageName]]
    /\ UNCHANGED <<mdCache, fetches, outsideMetadata>>

\* Lines 26-32: the response arrives and its body is awaited, or the fetch
\* fails or the response is not ok and the error of line 37 is thrown.
FetchReturns(c) ==
    /\ mdCalls[c].pc = "fetch"
    /\ \/ mdCalls' = [mdCalls EXCEPT ![c].pc = "json"]
       \/ mdCalls' = [mdCalls EXCEPT ![c].pc = "threw",
                          ![c].error = ProviderError(mdCalls[c].name)]
    /\ UNCHANGED <<mdCache, fetches, mdCount, outsideMetadata>>

\* Lines 32-35: the record is parsed, put into the cache and returned, or
\* the body is no JSON and the error of line 37 is thrown.
JsonReturns(c) ==
    /\ mdCalls[c].pc = "json"
    /\ \/ LET name == mdCalls[c].name
              metadata == [name |-> name, fetch |-> fetches[name] + 1]
          IN  /\ fetches' = [fetches EXCEPT ![name] = @ + 1]
              /\ mdCache' = Put(mdCache, name, metadata)
              /\ mdCalls' = [mdCalls EXCEPT ![c].pc = "returned",
                                 ![c].fetched = TRUE,
                                 ![c].result = metadata]
       \/ /\ mdCalls' = [mdCalls EXCEPT ![c].pc = "threw",
                             ![c].error = ProviderError(mdCalls[c].name)]
          /\ UNCHANGED <<mdCache, fetches>>
    /\ UNCHANGED <<mdCount, outsideMetadata>>

MdInit ==
    /\ mdCache = EmptyMap
    /\ mdCalls = [c \in MdCallers |-> IdleMd]
    /\ fetches = [n \in MdNames |-> 0]
    /\ mdCount = 0

MdNext ==
    \/ \E c \in MdCallers, name \in MdNames : GetPackageMetadataCall(c, name)
    \/ \E c \in MdCallers : FetchReturns(c)
    \/ \E c \in MdCallers : JsonReturns(c)

(***************************************************************************)
(* FastCache.install (index.js lines 24-93) on one FastCache instance:     *)
(* one cache, one registry client and one linker serve every install       *)
(* (lines 10-16).  disk holds the directories the installs share: the      *)
(* download targets cacheDir/temp/<name>, the store slots, the metadata    *)
(* records and the projects' node_modules entries.  A directory is         *)
(* "absent", "incomplete" (it exists without all the package's files) or   *)
(* "complete".  An action is one run of an install between two awaits.     *)
(***************************************************************************)
MaxInstalls == 2

MaxNow == 1

Installers == {"i1", "i2"}

Projects == {"web", "api"}

InstallNames == {"chalk", "ms"}

\* The dependencies of a package.json, in the order of the resolved tree.
Manifests == {<< >>, <<"ms">>, <<"chalk", "ms">>}

\* The version the resolver gives each name.
ResolvedVersion == ("chalk" :> "2.4.2") @@ ("ms" :> "2.1.3")

\* Line 50 and line 58: the entries [name, info] of the resolved tree.
ResolvedEntries(dependencies) ==
    [k \in 1..Len(dependencies) |->
        <<dependencies[k], ResolvedVersion[dependencies[k]]>>]

InstallEntries == {<<n, ResolvedVersion[n]>> : n \in InstallNames}

IdleInstall ==
    [pc |-> "idle", project |-> "", dependencies |-> << >>,
     resolved |-> << >>, queue |-> << >>, cacheHit |-> FALSE,
     calls |-> << >>, found |-> << >>, error |-> "", thrownBy |-> "",
     startedAt |-> 0,
     copying |-> "absent", overlapped |-> FALSE]

Installing(x) == x.pc \notin {"idle", "returned", "threw"}

\* The call the install makes next, recorded with the entry it is for;
\* found records what each hasPackage looked at.
Calls(x, operation) ==
    [x EXCEPT !.calls = Append(@, <<operation, x.queue[1][1]>>)]

InstallThrows(x, operation, message) ==
    [x EXCEPT !.pc = "threw", !.error = message, !.thrownBy = operation]

\* Lines 58-60 and 88-92: the next entry's hasPackage, or showStats after
\* the last one.
NextPackage(x) ==
    IF x.queue = << >>
    THEN [x EXCEPT !.pc = "stats"]
    ELSE Calls([x EXCEPT !.pc = "has"], "hasPackage")

\* Lines 24-50: package.json is read, and resolve is called unless there is
\* no dependency.
Started(i, project, readable, dependencies) ==
    LET x == [IdleInstall EXCEPT
                  !.project = project, !.startedAt = inNow,
                  !.dependencies = dependencies,
                  !.overlapped = \E j \in Installers \ {i} : Installing(ins[j])]
    IN  [j \in Installers |->
            IF j = i
            THEN IF ~readable
                 THEN InstallThrows(x, "readFile", "Cannot read package.json")
                 ELSE IF dependencies = << >>
                      THEN [x EXCEPT !.pc = "returned"]
                      ELSE [x EXCEPT !.pc = "resolve"]
            ELSE IF Installing(ins[j]) /\ readable /\ dependencies # << >>
                 THEN [ins[j] EXCEPT !.overlapped = TRUE]
                 ELSE ins[j]]

\* install called while no other install runs.
InstallCall(i, project, readable, dependencies) ==
    /\ ~Installing(ins[i])
    /\ \A j \in Installers : ~Installing(ins[j])
    /\ inCount < MaxInstalls
    /\ inCount' = inCount + 1
    /\ ins' = Started(i, project, readable, dependencies)
    /\ UNCHANGED <<disk, inActive, inNow, outsideInstall>>

\* install called while another install runs.
ConcurrentInstallCall(i, project, readable, dependencies) ==
    /\ ~Installing(ins[i])
    /\ inCount < MaxInstalls
    /\ inCount' = inCount + 1
    /\ ins' = Started(i, project, readable, dependencies)
    /\ UNCHANGED <<disk, inActive, inNow, outsideInstall>>

\* Lines 50-60: resolve returns the tree and the loop starts.
ResolveReturns(i) ==
    /\ ins[i].pc = "resolve"
    /\ LET entries == ResolvedEntries(ins[i].dependencies)
       IN  ins' = [ins EXCEPT ![i] =
               NextPackage([@ EXCEPT !.resolved = entries,
                                     !.queue = entries])]
    /\ UNCHANGED <<disk, inActive, inNow, inCount, outsideInstall>>

\* Line 50: resolve rejects; nothing in install catches the error.
ResolveFails(i) ==
    /\ ins[i].pc = "resolve"
    /\ ins' = [ins EXCEPT ![i] =
           InstallThrows(@, "resolve", "No matching version found")]
    /\ UNCHANGED <<disk, inActive, inNow, inCount, outsideInstall>>

\* The call that follows linkToProject: touchPackage on a cache hit (line
\* 67), the removal of the download target otherwise (line 80).
AfterLinkTouches(x) == Calls([x EXCEPT !.pc = "touch"], "touchPackage")

AfterLink(x) ==
    IF x.cacheHit
    THEN Calls([x EXCEPT !.pc = "touch"], "touchPackage")
    ELSE Calls([x EXCEPT !.pc = "rmTemp"], "rm")

\* Lines 60-74 with registry-client.js lines 42-57: hasPackage has looked
\* for the slot; a hit calls linkToProject, a miss calls downloadPackage,
\* which joins the download in progress for the same key or starts one.
HasPackageReturns(i) ==
    /\ ins[i].pc = "has"
    /\ LET e == ins[i].queue[1]
           x == [ins[i] EXCEPT !.found = Append(@, <<e[1], disk.slot[e]>>)]
           hit == disk.slot[e] # "absent"
       IN  IF hit
           THEN /\ ins' = [ins EXCEPT ![i] =
                        Calls([x EXCEPT !.pc = "link", !.cacheHit = TRUE],
                              "linkToProject")]
                /\ UNCHANGED inActive
           ELSE /\ ins' = [ins EXCEPT ![i] =
                        Calls([x EXCEPT !.cacheHit = FALSE,
                                        !.pc = IF e \in inActive
                                               THEN "joined" ELSE "mkdir"],
                              "downloadPackage")]
                /\ inActive' = inActive \cup {e}
    /\ UNCHANGED <<disk, inNow, inCount, outsideInstall>>

\* registry-client.js lines 66-82: the metadata is there and the download
\* target exists from now on.
PerformDownloadMkdirs(i) ==
    /\ ins[i].pc = "mkdir"
    /\ LET name == ins[i].queue[1][1]
       IN  disk' = [disk EXCEPT !.temp[name] =
                       IF @ = "absent" THEN "incomplete" ELSE @]
    /\ ins' = [ins EXCEPT ![i].pc = "extract"]
    /\ UNCHANGED <<inActive, inNow, inCount, outsideInstall>>

\* The download's rejection stops the loop of install (line 74).
DownloadFailedSkips(x) ==
    NextPackage([x EXCEPT !.queue = Tail(@)])

DownloadFailed(x) ==
    InstallThrows(x, "downloadPackage",
           "Failed to download " \o x.queue[1][1] \o "@" \o x.queue[1][2])

DownloadSucceeded(x) == Calls([x EXCEPT !.pc = "cp"], "storePackage")

\* registry-client.js lines 57-61: the download promise settles for the
\* install that started it and for those that joined it.
DownloadSettled(e, fulfilled) ==
    [j \in Installers |->
        IF /\ ins[j].pc \in {"mkdir", "extract", "joined"}
           /\ ins[j].queue[1] = e
        THEN IF fulfilled
             THEN DownloadSucceeded(ins[j])
             ELSE DownloadFailed(ins[j])
        ELSE ins[j]]

\* registry-client.js lines 84-108 and index.js line 76: the tarball is
\* extracted into the download target, which must exist, and storePackage
\* is called.
PerformDownloadReturns(i) ==
    /\ ins[i].pc = "extract"
    /\ LET e == ins[i].queue[1]
       IN  /\ inActive' = inActive \ {e}
           /\ IF disk.temp[e[1]] = "absent"
              THEN /\ ins' = DownloadSettled(e, FALSE)
                   /\ UNCHANGED disk
              ELSE /\ ins' = DownloadSettled(e, TRUE)
                   /\ disk' = [disk EXCEPT !.temp[e[1]] = "complete"]
    /\ UNCHANGED <<inNow, inCount, outsideInstall>>

\* registry-client.js lines 66-71 and 87-114: the metadata, the version or
\* the tarball cannot be had.
PerformDownloadFails(i) ==
    /\ ins[i].pc \in {"mkdir", "extract"}
    /\ inActive' = inActive \ {ins[i].queue[1]}
    /\ ins' = DownloadSettled(ins[i].queue[1], FALSE)
    /\ UNCHANGED <<disk, inNow, inCount, outsideInstall>>

\* cache-manager.js line 53: fs.cp finds its source and creates the slot.
StoreCopyBegins(i) ==
    /\ ins[i].pc = "cp"
    /\ LET e == ins[i].queue[1]
       IN  IF disk.temp[e[1]] = "absent"
           THEN /\ ins' = [ins EXCEPT ![i] =
                        InstallThrows(@, "storePackage", "ENOENT")]
                /\ UNCHANGED disk
           ELSE /\ ins' = [ins EXCEPT ![i].pc = "copying",
                                      ![i].copying = disk.temp[e[1]]]
                /\ disk' = [disk EXCEPT !.slot[e] =
                                IF @ = "absent" THEN "incomplete" ELSE @]
    /\ UNCHANGED <<inActive, inNow, inCount, outsideInstall>>

\* cache-manager.js lines 53-56: fs.cp has copied what the source held.
StoreCopyReturns(i) ==
    /\ ins[i].pc = "copying"
    /\ disk' = [disk EXCEPT !.slot[ins[i].queue[1]] =
                   IF ins[i].copying = "complete" THEN "complete" ELSE @]
    /\ ins' = [ins EXCEPT ![i].pc = "meta"]
    /\ UNCHANGED <<inActive, inNow, inCount, outsideInstall>>

MetaOf(e) == IF e \in DOMAIN disk.meta THEN disk.meta[e] ELSE << >>

\* cache-manager.js lines 56-62 and index.js line 77: the metadata record
\* is written and linkToProject is called.
StoreMetadataReturns(i) ==
    /\ ins[i].pc = "meta"
    /\ LET e == ins[i].queue[1]
       IN  disk' = [disk EXCEPT !.meta = Put(@, e,
                       Merge(MetaOf(e),
                             ("installedAt" :> toISOString(inNow))
                                 @@ ("lastUsed" :> toISOString(inNow))))]
    /\ ins' = [ins EXCEPT ![i] =
           Calls([@ EXCEPT !.pc = "link"], "linkToProject")]
    /\ UNCHANGED <<inActive, inNow, inCount, outsideInstall>>

\* link-manager.js lines 66-77: the project's node_modules entry is
\* replaced by links to what the slot holds.
LinkToProjectReturns(i) ==
    /\ ins[i].pc = "link"
    /\ LET e == ins[i].queue[1]
       IN  disk' = [disk EXCEPT !.modules[<<ins[i].project, e[1]>>] =
                       IF disk.slot[e] = "complete"
                       THEN "complete" ELSE "incomplete"]
    /\ ins' = [ins EXCEPT ![i] = AfterLink(@)]
    /\ UNCHANGED <<inActive, inNow, inCount, outsideInstall>>

\* link-manager.js line 71 or 74 rejects.
LinkToProjectFails(i) ==
    /\ ins[i].pc = "link"
    /\ ins' = [ins EXCEPT ![i] =
           InstallThrows(@, "linkToProject", "Failed to link package")]
    /\ UNCHANGED <<disk, inActive, inNow, inCount, outsideInstall>>

\* cache-manager.js lines 66-70 and index.js line 84.
TouchPackageReturns(i) ==
    /\ ins[i].pc = "touch"
    /\ LET e == ins[i].queue[1]
       IN  disk' = [disk EXCEPT !.meta = Put(@, e,
                       Merge(MetaOf(e), "lastUsed" :> toISOString(inNow)))]
    /\ ins' = [ins EXCEPT ![i] =
           Calls([@ EXCEPT !.pc = "record"], "recordInstall")]
    /\ UNCHANGED <<inActive, inNow, inCount, outsideInstall>>

\* Lines 80-84: the download target is removed.
RmTempReturns(i) ==
    /\ ins[i].pc = "rmTemp"
    /\ disk' = [disk EXCEPT !.temp[ins[i].queue[1][1]] = "absent"]
    /\ ins' = [ins EXCEPT ![i] =
           Calls([@ EXCEPT !.pc = "record"], "recordInstall")]
    /\ UNCHANGED <<inActive, inNow, inCount, outsideInstall>>

\* Lines 84-86 and 58-60: the loop goes to the next entry.
RecordInstallReturns(i) ==
    /\ ins[i].pc = "record"
    /\ ins' = [ins EXCEPT ![i] = NextPackage([@ EXCEPT !.queue = Tail(@)])]
    /\ UNCHANGED <<disk, inActive, inNow, inCount, outsideInstall>>

\* Lines 92-93.
ShowStatsReturns(i) ==
    /\ ins[i].pc = "stats"
    /\ ins' = [ins EXCEPT ![i].pc = "returned"]
    /\ UNCHANGED <<disk, inActive, inNow, inCount, outsideInstall>>

\* Time passes.
InstallTick ==
    /\ inNow < MaxNow
    /\ inNow' = inNow + 1
    /\ UNCHANGED <<ins, disk, inActive, inCount, outsideInstall>>

\* After init: an empty cache and projects without node_modules.
InInit ==
    /\ ins = [i \in Installers |-> IdleInstall]
    /\ disk = [temp |-> [n \in InstallNames |-> "absent"],
               slot |-> [e \in InstallEntries |-> "absent"],
               meta |-> << >>,
               modules |-> [m \in Projects \X InstallNames |-> "absent"]]
    /\ inActive = {}
    /\ inNow = 0
    /\ inCount = 0

\* The steps of an install whose calls succeed or fail by what the disk
\* holds.
InSteps ==
    \/ \E i \in Installers : ResolveReturns(i)
    \/ \E i \in Installers : HasPackageReturns(i)
    \/ \E i \in Installers : PerformDownloadMkdirs(i)
    \/ \E i \in Installers : PerformDownloadReturns(i)
    \/ \E i \in Installers : StoreCopyBegins(i)
    \/ \E i \in Installers : StoreCopyReturns(i)
    \/ \E i \in Installers : StoreMetadataReturns(i)
    \/ \E i \in Installers : LinkToProjectReturns(i)
    \/ \E i \in Installers : TouchPackageReturns(i)
    \/ \E i \in Installers : RmTempReturns(i)
    \/ \E i \in Installers : RecordInstallReturns(i)
    \/ \E i \in Installers : ShowStatsReturns(i)

\* Installs one after the other, with the failures of the registry and of
\* the file system.
InNext ==
    \/ \E i \in Installers, project \in Projects, readable \in BOOLEAN,
          dependencies \in Manifests :
           InstallCall(i, project, readable, dependencies)
    \/ InSteps
    \/ \E i \in Installers : ResolveFails(i)
    \/ \E i \in Installers : PerformDownloadFails(i)
    \/ \E i \in Installers : LinkToProjectFails(i)
    \/ InstallTick

\* Installs that overlap, without failures of the registry or of the file
\* system.
CiNext ==
    \/ \E i \in Installers, project \in Projects, readable \in BOOLEAN,
          dependencies \in Manifests :
           ConcurrentInstallCall(i, project, readable, dependencies)
    \/ InSteps

(***************************************************************************)
(* CacheManager.updateMetadata and touchPackage (src/src/cache-manager.js) *)
(* called by two callers whose calls overlap: each awaits readFile and     *)
(* then writeFile, and the other caller runs while it waits.               *)
(***************************************************************************)
MaxUpdates == 3

MaxUpClock == 1

Updaters == {"u1", "u2"}

UpIds == { <<"lodash", "1.0.0">>, <<"cfg.json", "1.0.0">> }

IdleUpdate ==
    [kind |-> "none", pc |-> "idle", name |-> "", version |-> "",
     data |-> << >>, metadata |-> << >>, overlapped |-> FALSE]

OtherUpdater(c) == CHOOSE d \in Updaters : d # c

UpdateRunning(c) == up[c].pc \in {"read", "write"}

\* The call of c begins while a call of the other caller for the same
\* identity is between its first and its last step.
Overlaps(c, name, version) ==
    /\ UpdateRunning(OtherUpdater(c))
    /\ up[OtherUpdater(c)].name = name
    /\ up[OtherUpdater(c)].version = version

UpdateBegins(c, kind, name, version, data) ==
    [d \in Updaters |->
        IF d = c
        THEN [IdleUpdate EXCEPT
                 !.kind = kind, !.pc = "read", !.name = name,
                 !.version = version, !.data = data,
                 !.overlapped = Overlaps(c, name, version)]
        ELSE [up[d] EXCEPT !.overlapped = @ \/ Overlaps(c, name, version)]]

\* updateMetadata, lines 73-78: readFile is issued.
ConcurrentUpdateMetadataCall(c, name, version, data) ==
    /\ ~UpdateRunning(c) /\ upCount < MaxUpdates
    /\ upCount' = upCount + 1
    /\ up' = UpdateBegins(c, "updateMetadata", name, version, data)
    /\ UNCHANGED <<upFiles, upClock, outsideUpdates>>

\* touchPackage, lines 66-70, into updateMetadata.
ConcurrentTouchPackageCall(c, name, version) ==
    /\ ~UpdateRunning(c) /\ upCount < MaxUpdates
    /\ upCount' = upCount + 1
    /\ up' = UpdateBegins(c, "touchPackage", name, version,
                          "lastUsed" :> toISOString(upClock))
    /\ UNCHANGED <<upFiles, upClock, outsideUpdates>>

\* Lines 78-85: readFile returns the record or throws (no file: caught,
\* the record is {}); the merged record is given to writeFile.
ConcurrentReadReturns(c) ==
    /\ up[c].pc = "read"
    /\ up' = [up EXCEPT ![c].pc = "write",
                 ![c].metadata =
                     Merge(IF metaPath(up[c].name, up[c].version)
                                  \in DOMAIN upFiles
                           THEN upFiles[metaPath(up[c].name, up[c].version)]
                           ELSE << >>,
                           up[c].data)]
    /\ UNCHANGED <<upFiles, upClock, upCount, outsideUpdates>>

\* The record writeFile is given replaces the file whatever it holds.
WrittenOver(files, u) == Put(files, metaPath(u.name, u.version), u.metadata)

\* Line 85: writeFile returns and with it updateMetadata.
ConcurrentWriteReturns(c) ==
    /\ up[c].pc = "write"
    /\ upFiles' = WrittenOver(upFiles, up[c])
    /\ up' = [up EXCEPT ![c].pc = "returned"]
    /\ UNCHANGED <<upClock, upCount, outsideUpdates>>

UpdateTick ==
    /\ upClock < MaxUpClock
    /\ upClock' = upClock + 1
    /\ UNCHANGED <<up, upFiles, upCount, outsideUpdates>>

UpInit ==
    /\ up = [c \in Updaters |-> IdleUpdate]
    /\ upFiles = << >>
    /\ upClock = 0
    /\ upCount = 0

UpNext ==
    \/ \E c \in Updaters, id \in UpIds, data \in Patches :
           ConcurrentUpdateMetadataCall(c, id[1], id[2], data)
    \/ \E c \in Updaters, id \in UpIds :
           ConcurrentTouchPackageCall(c, id[1], id[2])
    \/ \E c \in Updaters : ConcurrentReadReturns(c)
    \/ \E c \in Updaters : ConcurrentWriteReturns(c)
    \/ UpdateTick

(***************************************************************************)
(* The miss path of FastCache.install (src/unnamed/part_002 lines 58-86)   *)
(* for one package name of which the registry has two versions.  tempDir   *)
(* is cacheDir/temp/<name>, the download target of every version of the    *)
(* name; a file is held with the version whose tarball it came from.       *)
(***************************************************************************)
MaxTmpInstalls == 3

TmpInstallers == {"i1", "i2"}

TmpVersions == {"2.0.0", "2.1.3"}

\* The files of each version's tarball.
TarballFiles(version) ==
    IF version = "2.0.0"
    THEN {"package.json", "index.js", "legacy.js"}
    ELSE {"package.json", "index.js"}

NoDir == [exists |-> FALSE, files |-> {}]

IdleTmp ==
    [pc |-> "idle", version |-> "", cacheHit |-> FALSE, todo |-> {},
     error |-> ""]

TmpRunning(i) == tmp[i].pc \notin {"idle", "returned", "threw"}

TmpThrows(x, message) == [x EXCEPT !.pc = "threw", !.error = message]

\* The file system after one entry of a tarball is written into a
\* directory: the entry replaces a file of its name and leaves the others.
Extracted(files, f, version) ==
    { g \in files : g[1] # f } \cup { <<f, version>> }

\* fs.cp of a directory into a directory, recursive: the files of the source
\* replace those of their names and the others stay.
CopiedInto(dst, src) ==
    { g \in dst : \A h \in src : h[1] # g[1] } \cup src

\* Lines 24-60: install is called with a manifest that resolves the name to
\* this version, and hasPackage is called.
TmpInstallCall(i, version) ==
    /\ ~TmpRunning(i) /\ tmpCount < MaxTmpInstalls
    /\ tmpCount' = tmpCount + 1
    /\ tmp' = [tmp EXCEPT ![i] = [IdleTmp EXCEPT !.pc = "has",
                                                 !.version = version]]
    /\ UNCHANGED <<tempDir, vslots, outsideTempDir>>

\* The download key of registry-client.js line 43 is in activeDownloads.
TmpActive(version) ==
    \E j \in TmpInstallers :
        tmp[j].pc \in {"mkdir", "extract"} /\ tmp[j].version = version

\* Lines 60-74 with registry-client.js lines 42-57: a hit calls
\* linkToProject, a miss calls downloadPackage with the target
\* cacheDir/temp/<name>, which joins the download in progress for the same
\* version or starts one.
TmpHasPackageReturns(i) ==
    /\ tmp[i].pc = "has"
    /\ tmp' = [tmp EXCEPT ![i] =
           IF tmp[i].version \in DOMAIN vslots
           THEN [@ EXCEPT !.pc = "link", !.cacheHit = TRUE]
           ELSE [@ EXCEPT !.pc = IF TmpActive(tmp[i].version)
                                 THEN "joined" ELSE "mkdir"]]
    /\ UNCHANGED <<tempDir, vslots, tmpCount, outsideTempDir>>

\* registry-client.js lines 66-82: mkdir of the target, recursive, creates
\* it or finds it with what it holds.
TmpMkdirReturns(i) ==
    /\ tmp[i].pc = "mkdir"
    /\ tempDir' = [tempDir EXCEPT !.exists = TRUE]
    /\ tmp' = [tmp EXCEPT ![i].pc = "extract",
                          ![i].todo = TarballFiles(tmp[i].version)]
    /\ UNCHANGED <<vslots, tmpCount, outsideTempDir>>

\* registry-client.js lines 57-61: the download promise settles for the
\* install that started it and for those that joined it.
TmpSettled(version, pc, message) ==
    [j \in TmpInstallers |->
        IF /\ tmp[j].pc \in {"mkdir", "extract", "joined"}
           /\ tmp[j].version = version
        THEN [tmp[j] EXCEPT !.pc = pc, !.error = message, !.todo = {}]
        ELSE tmp[j]]

\* registry-client.js lines 100-104: tar.extract writes one entry of the
\* tarball into the target, or fails because the target is gone.
TmpExtractFile(i, f) ==
    /\ tmp[i].pc = "extract" /\ f \in tmp[i].todo
    /\ IF tempDir.exists
       THEN /\ tempDir' = [tempDir EXCEPT
                              !.files = Extracted(@, f, tmp[i].version)]
            /\ tmp' = [tmp EXCEPT ![i].todo = @ \ {f}]
       ELSE /\ tmp' = TmpSettled(tmp[i].version, "threw",
                                 "Failed to download")
            /\ UNCHANGED tempDir
    /\ UNCHANGED <<vslots, tmpCount, outsideTempDir>>

\* registry-client.js lines 106-109 and index.js line 76: every entry is
\* extracted, the download returns its target and storePackage is called.
TmpDownloadReturns(i) ==
    /\ tmp[i].pc = "extract" /\ tmp[i].todo = {}
    /\ tmp' = TmpSettled(tmp[i].version, "cp", "")
    /\ UNCHANGED <<tempDir, vslots, tmpCount, outsideTempDir>>

\* registry-client.js lines 87-114: the tarball cannot be had; the catch
\* removes the directory of the tarball and leaves the target.
TmpDownloadFails(i) ==
    /\ tmp[i].pc = "extract"
    /\ tmp' = TmpSettled(tmp[i].version, "threw", "Failed to download")
    /\ UNCHANGED <<tempDir, vslots, tmpCount, outsideTempDir>>

\* cache-manager.js lines 49-62 and index.js line 77: fs.cp copies what the
\* target holds into the slot of the version, or finds no source.
TmpStorePackageReturns(i) ==
    /\ tmp[i].pc = "cp"
    /\ IF tempDir.exists
       THEN /\ vslots' = Put(vslots, tmp[i].version,
                             CopiedInto(IF tmp[i].version \in DOMAIN vslots
                                        THEN vslots[tmp[i].version] ELSE {},
                                        tempDir.files))
            /\ tmp' = [tmp EXCEPT ![i].pc = "link"]
       ELSE /\ tmp' = [tmp EXCEPT ![i] = TmpThrows(@, "ENOENT")]
            /\ UNCHANGED vslots
    /\ UNCHANGED <<tempDir, tmpCount, outsideTempDir>>

\* Lines 65-67 and 77-80: linkToProject returns; on the miss path fs.rm of
\* the target is called.
TmpLinkToProjectReturns(i) ==
    /\ tmp[i].pc = "link"
    /\ tmp' = [tmp EXCEPT ![i].pc = IF tmp[i].cacheHit
                                    THEN "returned" ELSE "rmTemp"]
    /\ UNCHANGED <<tempDir, vslots, tmpCount, outsideTempDir>>

\* link-manager.js line 71 or 74 rejects: install throws before line 80.
TmpLinkToProjectFails(i) ==
    /\ tmp[i].pc = "link"
    /\ tmp' = [tmp EXCEPT ![i] = TmpThrows(@, "Failed to link package")]
    /\ UNCHANGED <<tempDir, vslots, tmpCount, outsideTempDir>>

\* Line 80: the target is removed with all it holds.
TmpRmReturns(i) ==
    /\ tmp[i].pc = "rmTemp"
    /\ tempDir' = NoDir
    /\ tmp' = [tmp EXCEPT ![i].pc = "returned"]
    /\ UNCHANGED <<vslots, tmpCount, outsideTempDir>>

TmpInit ==
    /\ tmp = [i \in TmpInstallers |-> IdleTmp]
    /\ tempDir = NoDir
    /\ vslots = << >>
    /\ tmpCount = 0

TmpNext ==
    \/ \E i \in TmpInstallers, version \in TmpVersions :
           TmpInstallCall(i, version)
    \/ \E i \in TmpInstallers : TmpHasPackageReturns(i)
    \/ \E i \in TmpInstallers : TmpMkdirReturns(i)
    \/ \E i \in TmpInstallers, f \in TarballFiles("2.0.0") :
           TmpExtractFile(i, f)
    \/ \E i \in TmpInstallers : TmpDownloadReturns(i)
    \/ \E i \in TmpInstallers : TmpDownloadFails(i)
    \/ \E i \in TmpInstallers : TmpStorePackageReturns(i)
    \/ \E i \in TmpInstallers : TmpLinkToProjectReturns(i)
    \/ \E i \in TmpInstallers : TmpLinkToProjectFails(i)
    \/ \E i \in TmpInstallers : TmpRmReturns(i)

Init ==
    /\ DlInit /\ RsInit /\ SvInit /\ StInit /\ LkInit /\ CrInit /\ MdInit
    /\ InInit
    /\ UpInit
    /\ TmpInit

Next ==
    \/ DlNext \/ RsNext \/ SvNext \/ StNext \/ LkNext \/ CrNext \/ MdNext
    \/ InNext \/ CiNext
    \/ UpNext
    \/ TmpNext

Spec == Init /\ [][Next]_vars

SpecDownload == Init /\ [][DlNext]_vars

SpecResolve == Init /\ [][RsNext]_vars

\* The resolver with a metadata provider that can fail.
SpecResolveFaulty == Init /\ [][RsNext \/ MetadataFails]_vars

\* An awaited promise that has settled resumes its awaiter: the weak
\* fairness WF_rs(MetadataReturns \/ AwaitReturns), written with the
\* condition under which one of the two is enabled, which is that the call
\* is running.
SpecResolveFair ==
    /\ Init /\ [][RsNext]_vars
    /\ \/ []<>(rs.status # "running")
       \/ []<><<MetadataReturns \/ AwaitReturns>>_rs

SpecSelect == Init /\ [][SvNext]_vars

SpecStore == Init /\ [][StNext]_vars

SpecLink == Init /\ [][LkNext]_vars

SpecConcurrentResolve == Init /\ [][CrNext]_vars

SpecMetadata == Init /\ [][MdNext]_vars

SpecInstall == Init /\ [][InNext]_vars

SpecConcurrentInstall == Init /\ [][CiNext]_vars

\* Metadata updates of two callers that overlap.
SpecConcurrentUpdates == Init /\ [][UpNext]_vars

\* Installs of two versions of one name, one after the other or
\* overlapping, with the failures of the registry and of the linker.
SpecTempDir == Init /\ [][TmpNext]_vars

(***************************************************************************)
(* Properties of the download coordination.                                *)
(***************************************************************************)
Delivered(c) == callers[c].pc \in {"joinSettled", "returned"}

\* Calls served by one execution asked for the same (name, version,
\* targetPath) and, once settled, have the same outcome.
SameExecSameOutcome ==
    \A c, d \in Callers :
        (callers[c].exec # 0 /\ callers[c].exec = callers[d].exec) =>
            /\ callers[c].req = callers[d].req
            /\ (Delivered(c) /\ Delivered(d)) =>
                   /\ callers[c].status = callers[d].status
                   /\ callers[c].error = callers[d].error

\* C1: while a download for (n, v, t) is in flight, a call with the same
\* (n, v, t) starts no second _performDownload: no two unfinished calls
\* that each started an execution hold the same triple, a call that joined
\* follows the registered execution of its own triple, and all calls served
\* by one execution receive that execution's outcome; calls that differ in
\* name, version or targetPath never share an execution.
C1_OneExecutionPerKey ==
    /\ \A c, d \in Callers :
           (c # d /\ callers[c].pc = "awaitInit" /\ callers[d].pc = "awaitInit")
               => callers[c].req # callers[d].req
    /\ \A c \in Callers :
           callers[c].pc = "awaitJoin" =>
               /\ callers[callers[c].on].pc = "awaitInit"
               /\ callers[callers[c].on].req = callers[c].req
               /\ callers[callers[c].on].exec = callers[c].exec
    /\ SameExecSameOutcome
    /\ \A c \in Callers :
           Pending(c) => callers[c].exec \in 1..nextExec

C1_Witness ==
    \E c, d \in Callers :
        /\ c # d
        /\ callers[c].pc = "returned" /\ callers[d].pc = "returned"
        /\ callers[c].exec = callers[d].exec
        /\ callers[c].status = "ok"
        /\ \E f \in Callers : callers[f].exec \notin {0, callers[c].exec}

\* C2: activeDownloads holds a key only between the initiation of that
\* download and the moment its call settles: every registered key belongs
\* to a call that started the execution and has not settled, and when no
\* downloadPackage call is pending the registry is empty.
C2_RegistryOnlyInFlight ==
    /\ \A k \in DOMAIN activeDownloads :
           /\ callers[activeDownloads[k]].pc = "awaitInit"
           /\ KeyOf(callers[activeDownloads[k]].req) = k
    /\ \A c \in Callers :
           callers[c].pc = "awaitInit" =>
               /\ KeyOf(callers[c].req) \in DOMAIN activeDownloads
               /\ activeDownloads[KeyOf(callers[c].req)] = c
    /\ (\A c \in Callers : ~Pending(c)) => DOMAIN activeDownloads = {}

C2_Witness ==
    /\ \A c \in Callers : ~Pending(c)
    /\ DOMAIN activeDownloads = {}
    /\ \E c \in Callers : callers[c].pc = "returned" /\ callers[c].status = "err"
    /\ \E c \in Callers : callers[c].pc = "returned" /\ callers[c].status = "ok"

\* A step in which caller c issues a downloadPackage call.
IssuesCall(c) ==
    /\ callers[c].pc \in {"idle", "returned"}
    /\ callers'[c].pc \in {"awaitInit", "awaitJoin"}

\* C3: after a downloadPackage(n, v, t) has settled, failed or succeeded, a
\* later call with the same (n, v, t) is served by an execution started
\* after the one that settled call received, and its outcome is that new
\* execution's outcome.
C3_RetryGetsNewExecution ==
    /\ []SameExecSameOutcome
    /\ [][\A c, d \in Callers :
            (IssuesCall(c) /\ callers[d].pc = "returned"
                /\ callers[d].req = callers'[c].req)
                => callers'[c].exec > callers[d].exec]_vars

C3_Witness ==
    \E c, d \in Callers :
        /\ callers[c].pc = "returned" /\ callers[d].pc = "returned"
        /\ callers[c].req = callers[d].req
        /\ callers[d].status = "err"
        /\ callers[c].status = "ok"
        /\ callers[c].exec > callers[d].exec

\* The errors thrown inside the try block of _performDownload (lines 84-108).
TryCauses == {CauseOf("fetchTar"), CauseOf("pipe"), CauseOf("extract")}

\* C4 as stated: every caller awaiting a failed download fails with the
\* original error, the one thrown inside _performDownload.
C4_OriginalErrorReraised ==
    \A c \in Callers :
        (Delivered(c) /\ callers[c].status = "err")
            => callers[c].error = callers[c].cause

\* C4 as amended: when the execution for a key fails, the call that started
\* it and every call that joined it fail with one and the same error and
\* none receives a success result or stays pending for ever; that error is
\* the original one for a failure before the try block (metadata, missing
\* version, mkdir), and for a failure inside the try block a new error
\* whose message is "Failed to download n@v: " followed by the original
\* message.
C4_SameErrorToAllAwaiters ==
    /\ SameExecSameOutcome
    /\ \A c \in Callers :
           (Delivered(c) /\ callers[c].cause # "") =>
               /\ callers[c].status = "err"
               /\ callers[c].error =
                      IF callers[c].cause \in TryCauses
                      THEN "Failed to download " \o callers[c].req[1] \o "@"
                               \o callers[c].req[2] \o ": " \o callers[c].cause
                      ELSE callers[c].cause
    /\ \A c \in Callers :
           /\ (callers[c].pc = "awaitInit" /\ callers[c].xpc = "rejected")
                  => /\ callers[c].status = "err"
                     /\ ENABLED InitiatorResumes(c)
           /\ callers[c].pc = "awaitJoin"
                  => callers[callers[c].on].pc = "awaitInit"
           /\ callers[c].pc = "joinSettled" => ENABLED JoinerResumes(c)

C4_Witness ==
    \E c, d \in Callers :
        /\ c # d
        /\ callers[c].pc = "returned" /\ callers[d].pc = "returned"
        /\ callers[c].exec = callers[d].exec
        /\ callers[c].status = "err" /\ callers[d].status = "err"
        /\ callers[c].cause = CauseOf("pipe")

\* C5: on any failure of a download execution, no staging directory created
\* by that execution remains once the error has reached the callers.
C5_NoStagingDirAfterFailure ==
    \A c \in Callers :
        (Delivered(c) /\ callers[c].status = "err")
            => callers[c].exec \notin fsTemp

(***************************************************************************)
(* Properties of the resolver.                                             *)
(*                                                                         *)
(* The resolver written as the recursion of the source, without its        *)
(* awaits: ResolveEntries is the for loop of lines 106-108 and 161-163     *)
(* over entries, ResolveOne is resolveDependency.  x.failed: the call      *)
(* threw, and nothing after the throw is done.                             *)
(***************************************************************************)
RECURSIVE ResolveEntries(_, _, _)
RECURSIVE ResolveOne(_, _, _, _)

ResolveEntries(x, entries, depth) ==
    IF x.failed \/ entries = << >> THEN x
    ELSE ResolveEntries(
             ResolveOne(x, Head(entries)[1], Head(entries)[2], depth),
             Tail(entries), depth)

ResolveOne(x, name, range, depth) ==
    LET before == VersionIn(x.tree, name)
        entry(how, after) ==
            [name |-> name, range |-> range, depth |-> depth, how |-> how,
             before |-> before, after |-> after]
        versions == Registry[name]
        version == selectVersion(DOMAIN versions, range)
    IN  IF depth > MaxDepth THEN [x EXCEPT !.failed = TRUE]
        ELSE IF cacheKey(name, range) \in DOMAIN x.memo
        THEN LET t == MemoHitTree(x.tree, name, x.memo[cacheKey(name, range)])
             IN  [x EXCEPT !.tree = t,
                     !.log = Append(@, entry("memo", VersionIn(t, name)))]
        ELSE IF before # "" /\ Satisfies(before, range)
        THEN [x EXCEPT !.log = Append(@, entry("tree", before))]
        ELSE IF version = "" THEN [x EXCEPT !.failed = TRUE]
        ELSE ResolveEntries(
                 [x EXCEPT
                    !.tree = Put(@, name, [version |-> version,
                                           dependencies |-> versions[version]]),
                    !.memo = Put(@, cacheKey(name, range), version),
                    !.log = Append(@, entry("query", version))],
                 versions[version], depth + 1)

\* The outcome of resolve(dependencies) on a Resolver whose memo is memo.
Resolution(dependencies, memo) ==
    ResolveEntries([tree |-> EmptyMap, memo |-> memo, log |-> << >>,
                    failed |-> FALSE], dependencies, 0)

IsPrefix(s, t) == Len(s) <= Len(t) /\ SubSeq(t, 1, Len(s)) = s

Reverse(s) == [i \in 1..Len(s) |-> s[Len(s) + 1 - i]]

Versions(name) == DOMAIN Registry[name]

CycleInput == << <<"pkg-a", "^1.0.0">> >>

FreshResolve == rs.entry = "resolve" /\ rs.memo0 = EmptyMap

Finished == rs.status \in {"done", "failed"}

C7_LastRequesterWins ==
    rs.entry = "resolve"
        => \A i \in 1..Len(rs.log) :
               (rs.log[i].before # ""
                  /\ ~Satisfies(rs.log[i].before, rs.log[i].range))
                   => Satisfies(rs.log[i].after, rs.log[i].range)

\* Two requests of a call for one name are incompatible when no version the
\* registry has of it is in both ranges.
NoIncompatibleRequests ==
    \A i, j \in 1..Len(rs.log) :
        (i # j /\ rs.log[i].name = rs.log[j].name)
            => \E v \in Versions(rs.log[i].name) :
                   Satisfies(v, rs.log[i].range) /\ Satisfies(v, rs.log[j].range)

\* C8: a tree returned by resolve on a fresh Resolver, no two requests for
\* one name being incompatible, holds every top-level name and every
\* declared dependency name, each at the highest registry version in a
\* range it was requested with, with the dependencies that version
\* declares; the empty map gives the empty tree.
C8_TreeCompleteAtMaxSatisfying ==
    (FreshResolve /\ rs.status = "done" /\ NoIncompatibleRequests)
        => /\ \A i \in 1..Len(rs.input) : rs.input[i][1] \in DOMAIN rs.tree
           /\ \A name \in DOMAIN rs.tree :
                  /\ \E i \in 1..Len(rs.log) :
                         /\ rs.log[i].name = name
                         /\ rs.tree[name].version =
                                MaxSatisfying(Versions(name), rs.log[i].range)
                  /\ rs.tree[name].version \in Versions(name)
                  /\ rs.tree[name].dependencies =
                         Registry[name][rs.tree[name].version]
                  /\ \A k \in 1..Len(rs.tree[name].dependencies) :
                         rs.tree[name].dependencies[k][1] \in DOMAIN rs.tree
           /\ rs.input = << >> => rs.tree = EmptyMap

\* C9: when two packages of one resolve call require one name with the
\* same literal range, the second request is answered without a metadata
\* query and the returned tree holds the name at the highest registry
\* version in that range.
C9_SharedDependencyAtMaxSatisfying ==
    (rs.entry = "resolve" /\ rs.status = "done")
        => \A i, j \in 1..Len(rs.log) :
               (/\ i < j
                /\ rs.log[i].depth >= 1 /\ rs.log[j].depth >= 1
                /\ rs.log[i].name = rs.log[j].name
                /\ rs.log[i].range = rs.log[j].range)
                   => /\ rs.log[j].how # "query"
                      /\ rs.log[j].name \in DOMAIN rs.tree
                      /\ rs.tree[rs.log[j].name].version =
                             MaxSatisfying(Versions(rs.log[j].name),
                                           rs.log[j].range)

TopLevelOf(log) ==
    LET top == SelectSeq(log, LAMBDA e : e.depth = 0)
    IN  [i \in 1..Len(top) |-> <<top[i].name, top[i].range>>]

\* C10: a resolve call answers the requests in the order of the depth-first
\* walk, top-level entries in the order of the input map and dependencies
\* in their declared order, and its tree and memo are those of the
\* recursion on the input, the registry and the memo at the start of the
\* call.
C10_DepthFirstInInputOrder ==
    rs.entry = "resolve"
        => LET r == Resolution(rs.input, rs.memo0)
           IN  /\ IsPrefix(rs.log, r.log)
               /\ IsPrefix(TopLevelOf(rs.log), rs.input)
               /\ rs.memo = resolved
               /\ Finished
                      => /\ rs.log = r.log
                         /\ rs.tree = r.tree
                         /\ rs.memo = r.memo
                         /\ (rs.status = "failed") = r.failed

C10_Witness ==
    /\ FreshResolve /\ rs.status = "done"
    /\ Len(rs.input) = 2
    /\ \E i \in 1..Len(rs.log) : rs.log[i].depth >= 1
    /\ rs.tree # Resolution(Reverse(rs.input), rs.memo0).tree

\* The requests a call can make: those given to it and those declared in
\* the registry.
AllRequests ==
    TopRequests \cup
    UNION { UNION { {Registry[n][v][k] : k \in 1..Len(Registry[n][v])} :
                    v \in DOMAIN Registry[n] } : n \in DOMAIN Registry }

\* C12: a request whose range no registry version satisfies, the record
\* without versions included, is not answered: the call fails with the
\* no-matching-version error, the memo entry of the request unwritten and
\* tree[name] not set to a version for it.
C12_NoMatchFailsUnwritten ==
    /\ \A i \in 1..Len(rs.log) :
           rs.log[i].how = "query"
               => \E v \in Versions(rs.log[i].name) :
                      Satisfies(v, rs.log[i].range)
    /\ \A req \in AllRequests :
           (/\ rs.status = "failed"
            /\ rs.error = "No matching version found for "
                              \o req[1] \o "@" \o req[2])
               => /\ cacheKey(req[1], req[2]) \notin DOMAIN rs.memo
                  /\ \A v \in Versions(req[1]) : ~Satisfies(v, req[2])
                  /\ \/ VersionIn(rs.tree, req[1]) = ""
                     \/ ~Satisfies(VersionIn(rs.tree, req[1]), req[2])

(***************************************************************************)
(* Properties of selectVersion.                                            *)
(***************************************************************************)
\* C11: selectVersion returns the highest of the versions that are in the
\* range (for "*" and "latest" the highest of the versions), none when no
\* version is in the range, and never a version outside the range.
C11_SelectsMaxSatisfyingOrNone ==
    sv.called
        => LET wanted == IF sv.range \in {"*", "latest"}
                         THEN sv.versions
                         ELSE {v \in sv.versions : Satisfies(v, sv.range)}
           IN  IF wanted = {}
               THEN sv.result = ""
               ELSE /\ sv.result \in wanted
                    /\ \A v \in wanted : VLeq(Ver(v), Ver(sv.result))

(***************************************************************************)
(* Properties of the store.                                                *)
(***************************************************************************)
OpReturned(kind) == op.kind = kind /\ op.pc = "returned"

OpPath == getPackagePath(op.name, op.version)

OpFile == metaPath(op.name, op.version)

RecordIn(files, file) == IF file \in DOMAIN files THEN files[file] ELSE << >>

\* C13: in every state hasPackage(name, version) is true exactly when a
\* storePackage of the identity has returned and no deletePackage of it
\* has returned true since.
C13_HasPackageIffStored ==
    \A id \in StIds : hasPackage(id[1], id[2]) <=> id \in stored

\* C14: when storePackage returns, the slot holds every file of the
\* source, the result is the slot path, the record holds installedAt and
\* lastUsed, both the time of the store, and size, the byte size of the
\* slot; the record is not written before the copy is complete.
C14_StoreCopiesThenRecords ==
    /\ OpReturned("storePackage")
           => /\ OpPath \in DOMAIN slots
              /\ SourceFiles \subseteq slots[OpPath]
              /\ op.result = OpPath
              /\ OpFile \in DOMAIN metaFiles
              /\ {"installedAt", "lastUsed", "size"}
                     \subseteq DOMAIN metaFiles[OpFile]
              /\ metaFiles[OpFile]["installedAt"] = metaFiles[OpFile]["lastUsed"]
              /\ \E t \in op.started..clock :
                     metaFiles[OpFile]["lastUsed"] = <<"T", t>>
              /\ metaFiles[OpFile]["size"] = SumSizes(slots[OpPath])
    /\ (op.kind = "storePackage" /\ op.pc \in {"cp", "size", "read", "write"})
           => metaFiles = op.meta0
    /\ (op.kind = "storePackage" /\ op.pc \in {"size", "read", "write"})
           => SourceFiles \subseteq FilesAt(OpPath)

C14_Witness ==
    /\ OpReturned("storePackage")
    /\ op.name = "cfg.json"
    /\ metaFiles[OpFile]["size"] = 5
    /\ OpFile \in DOMAIN op.meta0
    /\ "note" \in DOMAIN metaFiles[OpFile]

\* C15: when updateMetadata(name, version, patch) returns, the record holds
\* the value of the patch for every field of the patch and its previous
\* value for every other field, and no other field; a patch applied to a
\* record that already holds its values leaves the record as it is.
C15_ShallowMerge ==
    OpReturned("updateMetadata")
        => LET before == RecordIn(op.meta0, OpFile)
               after == RecordIn(metaFiles, OpFile)
           IN  /\ OpFile \in DOMAIN metaFiles
               /\ DOMAIN after = DOMAIN before \cup DOMAIN op.data
               /\ \A k \in DOMAIN op.data : after[k] = op.data[k]
               /\ \A k \in DOMAIN before \ DOMAIN op.data :
                      after[k] = before[k]
               /\ OpFile \notin DOMAIN op.meta0 => after = op.data
               /\ (\A k \in DOMAIN op.data :
                       k \in DOMAIN before /\ before[k] = op.data[k])
                      => after = before

C15_Witness ==
    /\ OpReturned("updateMetadata")
    /\ OpFile \in DOMAIN op.meta0
    /\ "installedAt" \in DOMAIN op.meta0[OpFile]
    /\ "note" \in DOMAIN op.meta0[OpFile]
    /\ op.meta0[OpFile]["note"] # op.data["note"]

\* C16: when touchPackage returns, the record of the identity differs from
\* the one before in lastUsed only, which is the time of the call; no slot
\* and no other record has changed.
C16_TouchUpdatesOnlyLastUsed ==
    OpReturned("touchPackage")
        => LET before == RecordIn(op.meta0, OpFile)
               after == RecordIn(metaFiles, OpFile)
           IN  /\ DOMAIN after = DOMAIN before \cup {"lastUsed"}
               /\ after["lastUsed"] = <<"T", op.started>>
               /\ \A k \in DOMAIN before \ {"lastUsed"} : after[k] = before[k]
               /\ slots = op.slots0
               /\ DOMAIN metaFiles = DOMAIN op.meta0 \cup {OpFile}
               /\ \A f \in DOMAIN op.meta0 \ {OpFile} :
                      metaFiles[f] = op.meta0[f]

C16_Witness ==
    /\ OpReturned("touchPackage")
    /\ OpFile \in DOMAIN op.meta0
    /\ {"installedAt", "size", "lastUsed"} \subseteq DOMAIN op.meta0[OpFile]
    /\ op.meta0[OpFile]["lastUsed"] # metaFiles[OpFile]["lastUsed"]
    /\ DOMAIN op.meta0 # {OpFile}

\* C17: deletePackage attempts the removal of the record even when the
\* removal of the slot failed, returns false without throwing when either
\* removal failed, and returns true only when neither slot nor record
\* exists.
C17_DeleteRemovesIndependently ==
    /\ op.kind = "deletePackage" => op.pc # "threw"
    /\ OpReturned("deletePackage")
           => /\ op.slotRm = "failed" => op.metaRm # "none"
              /\ op.result = "false"
                     <=> (op.slotRm = "failed" \/ op.metaRm = "failed")
              /\ op.result = "true"
                     => /\ OpPath \notin DOMAIN slots
                        /\ OpFile \notin DOMAIN metaFiles

\* What findUnused is to report at the cutoff date: for every identity
\* with a record whose lastUsed is before it, its name@version, lastUsed
\* and size.
UnusedAt(files, cutoffDate) ==
    { [name |-> id[1] \o "@" \o id[2],
       lastUsed |-> files[metaPath(id[1], id[2])]["lastUsed"],
       size |-> IF "size" \in DOMAIN files[metaPath(id[1], id[2])]
                THEN files[metaPath(id[1], id[2])]["size"] ELSE 0] :
      id \in {i \in StIds :
                /\ metaPath(i[1], i[2]) \in DOMAIN files
                /\ Unused(files[metaPath(i[1], i[2])], cutoffDate)} }

\* C18: findUnused(days) returns, once each, exactly the records whose
\* lastUsed is before now minus days, with name@version, lastUsed and
\* size; it changes no slot and no record.
C18_FindUnusedExact ==
    OpReturned("findUnused")
        => /\ slots = op.slots0 /\ metaFiles = op.meta0
           /\ \E now \in op.started..clock :
                  /\ {op.toDelete[i] : i \in 1..Len(op.toDelete)}
                         = UnusedAt(op.meta0, now - op.days)
                  /\ Len(op.toDelete)
                         = Cardinality(UnusedAt(op.meta0, now - op.days))

\* C19: a dry run of clean changes no slot and no record; a run that is
\* not dry, no removal failing, removes slot and record of every identity
\* whose record findUnused(days) reports and changes no other slot and no
\* other record.
C19_CleanRemovesReported ==
    OpReturned("clean")
        => IF op.dryRun
           THEN slots = op.slots0 /\ metaFiles = op.meta0
           ELSE ~op.rmFailed
                    => \E now \in op.started..clock :
                           \A id \in StIds :
                               LET file == metaPath(id[1], id[2])
                                   path == getPackagePath(id[1], id[2])
                               IN  IF /\ file \in DOMAIN op.meta0
                                      /\ Unused(op.meta0[file], now - op.days)
                                   THEN /\ path \notin DOMAIN slots
                                        /\ file \notin DOMAIN metaFiles
                                   ELSE /\ path \in DOMAIN slots
                                            <=> path \in DOMAIN op.slots0
                                        /\ FilesAt(path) =
                                               IF path \in DOMAIN op.slots0
                                               THEN op.slots0[path] ELSE {}
                                        /\ RecordIn(metaFiles, file)
                                               = RecordIn(op.meta0, file)
                                        /\ file \in DOMAIN metaFiles
                                               <=> file \in DOMAIN op.meta0

(***************************************************************************)
(* Properties of linkPackage.                                              *)
(***************************************************************************)
\* The strategies are attempted in the order hardlink, symlink, copy, each
\* after the one before it raised, and the tag returned is the strategy
\* attempted last, which did not raise and whose result is at the target.
StrictOrderAndTag ==
    /\ IsPrefix(lk.attempts, Strategies)
    /\ IsPrefix(lk.raised, lk.attempts)
    /\ lk.attempts # << >> => Len(lk.raised) >= Len(lk.attempts) - 1
    /\ lk.pc = "returned"
           => /\ lk.attempts # << >>
              /\ lk.result = lk.attempts[Len(lk.attempts)]
              /\ lk.raised = SubSeq(lk.attempts, 1, Len(lk.attempts) - 1)
              /\ lk.result = "symlink" => tgt.kind = "symlink"
              /\ lk.result = "copy"
                     => \A p \in SourceFilesOf(lk.source) :
                            <<p, "copy">> \in tgt.files
              /\ lk.result = "hardlink"
                     => \A p \in SourceFilesOf(lk.source) :
                            \E how \in {"link", "copy"} :
                                <<p, how>> \in tgt.files

\* C20 (as stated): linkPackage attempts hardlink, symlink, copy in this
\* order, each only after the one before raised, returns the tag of the
\* strategy that succeeded, and fails only when all three have raised.
C20_FailsOnlyIfAllThreeFail ==
    /\ StrictOrderAndTag
    /\ lk.pc = "threw" => lk.raised = Strategies

\* C20 (amended): as above, except that linkPackage also fails, no
\* strategy attempted, when the directory above the target cannot be
\* created.
C20_FailsIfParentOrAllThreeFail ==
    /\ StrictOrderAndTag
    /\ lk.pc = "threw"
           => \/ lk.raised = Strategies
              \/ lk.attempts = << >> /\ ~parent
    /\ lk.pc \in {"rm", "hardlink", "symlink", "cp", "returned"} => parent

C20_Witness ==
    /\ lk.pc = "returned"
    /\ lk.result = "copy"
    /\ lk.raised = <<"hardlink", "symlink">>
    /\ lk.source = "nested"
    /\ linkCount = 2

\* C21: whenever linkPackage has returned a tag for a source directory
\* with at least one file, the files at the target are the files of the
\* source, each with the content of the source, and no other file.
C21_TargetIdenticalToSource ==
    (lk.pc = "returned" /\ lk.source \in {"flat", "nested"})
        => \/ tgt.kind = "symlink"
           \/ /\ tgt.kind = "dir"
              /\ tgt.bytes = {<<p, lk.source>> : p \in SourceFilesOf(lk.source)}

\* C22: a failure of fs.link for a file does not make createHardLink
\* raise: the file is copied, the entries after it are processed, and
\* when linkPackage returns "hardlink" every file of the source is at the
\* target, those whose link failed as copies.
C22_LinkFailureCopiesTheFile ==
    /\ lk.cause # "link"
    /\ (lk.pc = "hardlink" /\ lk.stack # << >>)
           => \A p \in lk.linkFailed :
                  \/ <<p, "copy">> \in tgt.files
                  \/ Top.pc = "copyFile" /\ HeadPath = p
    /\ (lk.pc = "returned" /\ lk.result = "hardlink")
           => /\ \A p \in SourceFilesOf(lk.source) :
                     \E how \in {"link", "copy"} : <<p, how>> \in tgt.files
              /\ \A p \in lk.linkFailed : <<p, "copy">> \in tgt.files

C22_Witness ==
    /\ lk.pc = "returned"
    /\ lk.result = "hardlink"
    /\ lk.source = "nested"
    /\ lk.linkFailed = {"package.json"}
    /\ <<"lib/util.js", "link">> \in tgt.files

(***************************************************************************)
(* Further properties of the resolver.                                     *)
(***************************************************************************)
\* The version the log leaves a name at: the one after the last request
\* for the name, none when the name was not requested.
RECURSIVE LastAfter(_, _)
LastAfter(log, name) ==
    IF log = << >> THEN ""
    ELSE IF log[Len(log)].name = name THEN log[Len(log)].after
    ELSE LastAfter(SubSeq(log, 1, Len(log) - 1), name)

\* Tree and memo hold what the answered requests of the log wrote and
\* nothing else.
OnlyAnsweredWritten ==
    /\ \A name \in DOMAIN Registry :
           VersionIn(rs.tree, name) = LastAfter(rs.log, name)
    /\ DOMAIN rs.tree \subseteq DOMAIN Registry
    /\ DOMAIN rs.memo =
           DOMAIN rs.memo0 \cup
           {cacheKey(rs.log[i].name, rs.log[i].range) :
              i \in {j \in 1..Len(rs.log) : rs.log[j].how = "query"}}
    /\ \A k \in DOMAIN rs.memo0 : rs.memo[k] = rs.memo0[k]
    /\ resolved = rs.memo

CircularError ==
    /\ rs.status = "failed"
    /\ \E name \in DOMAIN Registry :
           rs.error = "Circular dependency detected: " \o name

\* C28: resolveDependency throws the circular-dependency error exactly
\* when entered with a depth above 100, depth 100 being accepted, and it
\* does so before it looks at memo or tree and before it asks for
\* metadata: a request rejected has written nothing, memoized or not.
C28_DepthGuardBeforeLookups ==
    /\ \A i \in 1..Len(rs.log) : rs.log[i].depth <= MaxDepth
    /\ \A i \in 1..Len(rs.stack) : rs.stack[i].depth <= MaxDepth
    /\ CircularError
           <=> (rs.thrownBy # << >> /\ rs.thrownBy[3] > MaxDepth)
    /\ CircularError
           => /\ rs.thrownBy[4] = 117
              /\ rs.error = "Circular dependency detected: " \o rs.thrownBy[1]
              /\ OnlyAnsweredWritten
    /\ (rs.entry = "resolveDependency" /\ rs.input[1][3] > MaxDepth)
           => /\ CircularError
              /\ rs.log = << >> /\ rs.tree = EmptyMap /\ rs.memo = rs.memo0
    /\ (rs.entry = "resolveDependency" /\ rs.status = "running")
           => rs.input[1][3] <= MaxDepth

C28_Witness ==
    /\ CircularError
    /\ rs.thrownBy[3] = MaxDepth + 1
    /\ cacheKey(rs.thrownBy[1], rs.thrownBy[2]) \in DOMAIN rs.memo
    /\ rs.log = << >>

\* C29: a request answered from the memo or from the tree is followed by
\* no request of a dependency of it and changes no memo entry; answered
\* from the memo it returns the memoized version and creates tree[name]
\* with that version and no dependencies when the name is absent, the
\* tree being unchanged otherwise; answered from the tree it returns the
\* version of tree[name] and leaves the tree unchanged.
C29_FastPathsLeaveTreeAndMemo ==
    /\ \A i \in 1..Len(rs.log) :
           rs.log[i].how \in {"memo", "tree"}
               => /\ \E k \in 1..Len(rs.fast) : rs.fast[k].index = i
                  /\ i < Len(rs.log) => rs.log[i + 1].depth <= rs.log[i].depth
    /\ (rs.stack # << >> /\ rs.log # << >>
          /\ rs.log[Len(rs.log)].how \in {"memo", "tree"})
           => rs.stack[Len(rs.stack)].depth <= rs.log[Len(rs.log)].depth
    /\ \A k \in 1..Len(rs.fast) :
           LET h == rs.fast[k]
               e == rs.log[h.index]
               key == cacheKey(e.name, e.range)
           IN  /\ h.memoAfter = h.memoBefore
               /\ e.how = "memo"
                      => /\ key \in DOMAIN h.memoBefore
                         /\ h.value = h.memoBefore[key]
                         /\ IF e.name \in DOMAIN h.treeBefore
                            THEN h.treeAfter = h.treeBefore
                            ELSE /\ DOMAIN h.treeAfter =
                                        DOMAIN h.treeBefore \cup {e.name}
                                 /\ h.treeAfter[e.name] =
                                        [version |-> h.memoBefore[key],
                                         dependencies |-> NoDeps]
                                 /\ \A n \in DOMAIN h.treeBefore :
                                        h.treeAfter[n] = h.treeBefore[n]
               /\ e.how = "tree"
                      => /\ key \notin DOMAIN h.memoBefore
                         /\ e.name \in DOMAIN h.treeBefore
                         /\ Satisfies(h.treeBefore[e.name].version, e.range)
                         /\ h.value = h.treeBefore[e.name].version
                         /\ h.treeAfter = h.treeBefore

C29_Witness ==
    /\ rs.status = "done"
    /\ \E k \in 1..Len(rs.fast) :
           /\ rs.log[rs.fast[k].index].how = "memo"
           /\ rs.log[rs.fast[k].index].name \in DOMAIN rs.fast[k].treeBefore
           /\ rs.fast[k].treeBefore[rs.log[rs.fast[k].index].name].version
                  # rs.fast[k].value
    /\ \E k \in 1..Len(rs.fast) : rs.log[rs.fast[k].index].how = "tree"

\* C30: when getPackageMetadata fails for a name, the call fails with the
\* error of the provider as it is, whatever the number of enclosing
\* resolveDependency invocations, and the request has written neither
\* tree[name] nor its memo entry.
C30_ProviderErrorUnchanged ==
    (rs.thrownBy # << >> /\ rs.thrownBy[4] = 139)
        => /\ rs.status = "failed"
           /\ rs.error = ProviderError(rs.thrownBy[1])
           /\ cacheKey(rs.thrownBy[1], rs.thrownBy[2]) \notin DOMAIN rs.memo
           /\ OnlyAnsweredWritten

C30_Witness ==
    /\ rs.entry = "resolve"
    /\ rs.status = "failed"
    /\ rs.thrownBy # << >>
    /\ rs.thrownBy[4] = 139
    /\ rs.thrownBy[3] = 2
    /\ rs.thrownBy[1] \in DOMAIN rs.tree

\* C27: of two resolve calls that run interleaved on one Resolver, each
\* has its requests answered from the memo only by entries that were
\* there when it started or that it wrote itself, and each returns the
\* tree it returns when it runs alone from the memo it started with.
C27_MemoExclusiveToOneCall ==
    \A c \in Resolves :
        cr[c].overlapped
            => /\ \A i \in 1..Len(cr[c].log) :
                      cr[c].log[i].how = "memo"
                          => cacheKey(cr[c].log[i].name, cr[c].log[i].range)
                                 \in DOMAIN cr[c].memo0 \cup
                                     {cacheKey(cr[c].log[j].name,
                                               cr[c].log[j].range) :
                                        j \in {k \in 1..(i - 1) :
                                                 cr[c].log[k].how = "query"}}
               /\ cr[c].status = "done"
                      => cr[c].tree =
                             Resolution(cr[c].input, cr[c].memo0).tree

(***************************************************************************)
(* Properties of the metadata provider.                                    *)
(***************************************************************************)
\* C25: for each name at most one fetch ever brings a record, calls
\* issued concurrently included, and a call for a name whose record is
\* cached returns that record without a fetch.
C25_OneFetchPerName ==
    /\ \A name \in MdNames : fetches[name] <= 1
    /\ \A c \in MdCallers :
           mdCalls[c].pc = "returned"
               => /\ mdCalls[c].name \in DOMAIN mdCache
                  /\ mdCalls[c].result = mdCache[mdCalls[c].name]
                  /\ mdCalls[c].cached => ~mdCalls[c].fetched

(***************************************************************************)
(* Properties of install.                                                  *)
(***************************************************************************)
\* The operations an install has called for a name, in order.
OpsFor(x, name) ==
    LET of == SelectSeq(x.calls, LAMBDA c : c[2] = name)
    IN  [k \in 1..Len(of) |-> of[k][1]]

HitCalls == <<"hasPackage", "linkToProject", "touchPackage", "recordInstall">>

MissCalls ==
    <<"hasPackage", "downloadPackage", "storePackage", "linkToProject", "rm",
      "recordInstall">>

\* The entries an install has gone through.
Processed(x) ==
    {x.resolved[k] : k \in 1..(Len(x.resolved) - Len(x.queue))}

SlotFound(x, name) ==
    \E k \in 1..Len(x.found) :
        x.found[k][1] = name /\ x.found[k][2] # "absent"

\* C23 as stated: every entry an install has gone through ended with
\* touchPackage, after the link, on the hit path and on the miss path.
C23_TouchOnBothPaths ==
    \A i \in Installers : \A e \in Processed(ins[i]) :
        \E k \in 1..Len(ins[i].calls) :
            ins[i].calls[k] = <<"touchPackage", e[1]>>

\* C23, amended: for each resolved entry install calls hasPackage first;
\* when the slot was found it then calls linkToProject and touchPackage and
\* neither downloadPackage nor storePackage; otherwise it calls
\* downloadPackage, storePackage, linkToProject and the removal of the
\* download target, and no touchPackage.  On both paths the entry's
\* lastUsed is a time of this install once the entry is processed.
C23_HitLinksAndTouchesMissStores ==
    \A i \in Installers :
        LET x == ins[i]
        IN  /\ \A k \in 1..Len(x.resolved) :
                   LET name == x.resolved[k][1]
                       ops == OpsFor(x, name)
                   IN  /\ IsPrefix(ops, IF SlotFound(x, name)
                                        THEN HitCalls ELSE MissCalls)
                       /\ ops # << >> =>
                              \A j \in 1..(k - 1) :
                                  x.resolved[j] \in Processed(x)
            /\ \A e \in Processed(x) :
                   /\ OpsFor(x, e[1]) =
                          IF SlotFound(x, e[1]) THEN HitCalls ELSE MissCalls
                   /\ e \in DOMAIN disk.meta
                   /\ disk.meta[e]["lastUsed"][2] >= x.startedAt
                   /\ disk.meta[e]["lastUsed"][2] <= inNow

\* Reached: an install that found the slot a previous install had stored,
\* linked and touched it, giving it a lastUsed later than its installedAt.
C23_Witness ==
    \E i, j \in Installers : \E e \in InstallEntries :
        /\ ins[i].pc = "returned" /\ ins[j].pc = "returned"
        /\ e \in Processed(ins[i]) /\ e \in Processed(ins[j])
        /\ OpsFor(ins[i], e[1]) = MissCalls
        /\ OpsFor(ins[j], e[1]) = HitCalls
        /\ disk.meta[e]["installedAt"] = toISOString(0)
        /\ disk.meta[e]["lastUsed"] = toISOString(1)
        /\ ins[j].startedAt = 1

\* The install waits for the download of the entry at the head of its
\* queue.
Downloading(x) == x.pc \in {"mkdir", "extract", "joined"}

\* C26: an install whose resolve failed has thrown that error and has
\* called nothing for any package; an install one of whose downloads
\* failed has thrown that download's error, has called neither
\* storePackage nor linkToProject for the entry, and has called nothing for
\* the entries after it.
C26_ErrorsAbortTheInstall ==
    \A i \in Installers :
        LET x == ins[i]
        IN  /\ (x.dependencies # << >> /\ x.pc # "resolve"
                    /\ x.thrownBy # "readFile" /\ x.resolved = << >>)
                   => /\ x.pc = "threw"
                      /\ x.thrownBy = "resolve"
                      /\ x.error = "No matching version found"
                      /\ x.calls = << >>
            /\ \A k \in 1..Len(x.resolved) :
                   LET e == x.resolved[k]
                   IN  (/\ OpsFor(x, e[1]) = <<"hasPackage", "downloadPackage">>
                        /\ ~Downloading(x))
                           => /\ x.pc = "threw"
                              /\ x.thrownBy = "downloadPackage"
                              /\ x.error =
                                     "Failed to download " \o e[1] \o "@"
                                         \o e[2]
                              /\ x.queue = SubSeq(x.resolved, k,
                                                  Len(x.resolved))
                              /\ \A j \in (k + 1)..Len(x.resolved) :
                                     OpsFor(x, x.resolved[j][1]) = << >>

\* Reached: one install stopped by the failed download of the first of its
\* two entries, another stopped by a failed resolve.
C26_Witness ==
    \E i, j \in Installers :
        /\ ins[i].pc = "threw" /\ ins[i].thrownBy = "downloadPackage"
        /\ Len(ins[i].queue) = 2
        /\ ins[j].pc = "threw" /\ ins[j].thrownBy = "resolve"
        /\ ins[j].dependencies # << >>

\* C24: two installs of the same dependencies into two projects that
\* overlap on one FastCache both return without an error, and once both
\* have returned each project's node_modules holds every resolved package
\* complete.
C24_ConcurrentInstallsBothComplete ==
    \A i, j \in Installers :
        (/\ i # j
         /\ ins[i].overlapped /\ ins[j].overlapped
         /\ ins[i].dependencies = ins[j].dependencies
         /\ ins[i].project # ins[j].project)
            => /\ ins[i].pc # "threw"
               /\ (ins[i].pc = "returned" /\ ins[j].pc = "returned")
                      => \A k \in 1..Len(ins[i].resolved) :
                             disk.modules[<<ins[i].project,
                                            ins[i].resolved[k][1]>>]
                                 = "complete"

(***************************************************************************)
(* Further properties of linkPackage.                                      *)
(***************************************************************************)
\* C31: when linkPackage has returned "symlink", createHardLink raised in
\* its outermost call at the stat, the mkdir or the link of a single file,
\* and nothing but the symbolic link is at the target; when it has
\* returned "copy" for a source directory, every file of the source is at
\* the target as a copy with the content of the source, none as a hard link
\* left by the attempt that raised.
C31_FallbackLeavesNoPartialLinks ==
    /\ (lk.pc = "returned" /\ lk.result = "symlink")
           => /\ lk.raisedDepth = 1
              /\ lk.cause \in {"stat", "mkdir", "linkSingle"}
              /\ tgt = [Absent EXCEPT !.kind = "symlink"]
    /\ (lk.pc = "returned" /\ lk.result = "copy"
            /\ lk.source \in {"flat", "nested"})
           => \A path \in SourceFilesOf(lk.source) :
                  /\ <<path, "copy">> \in tgt.files
                  /\ <<path, "link">> \notin tgt.files
                  /\ <<path, lk.source>> \in tgt.bytes

\* Reached: createHardLink raised below the outermost directory after it
\* had created the target directory and a file in it, the symbolic link
\* failed and the copy returned.
C31_Witness ==
    /\ lk.pc = "returned"
    /\ lk.result = "copy"
    /\ lk.source = "nested"
    /\ lk.raisedDepth = 2
    /\ lk.linkFailed # {}
    /\ linkCount = 1

(***************************************************************************)
(* Properties of successive resolve calls on one Resolver.                 *)
(***************************************************************************)
\* C32: every tree resolve returns, on a fresh Resolver or on one whose
\* memo holds the entries of an earlier call, gives each name the
\* dependencies the registry declares for the version it holds, and has
\* every name declared there among its keys.
C32_TreeClosedAndFaithful ==
    (rs.entry = "resolve" /\ rs.status = "done")
        => \A name \in DOMAIN rs.tree :
               /\ rs.tree[name].version \in Versions(name)
               /\ rs.tree[name].dependencies =
                      Registry[name][rs.tree[name].version]
               /\ \A k \in 1..Len(rs.tree[name].dependencies) :
                      rs.tree[name].dependencies[k][1] \in DOMAIN rs.tree

\* C33: a resolve call that follows, on the same Resolver and with the
\* same input, a resolve call that failed because a dependency had no
\* matching version fails too.
C33_FailureRepeats ==
    (/\ rs.entry = "resolve"
     /\ Finished
     /\ rs.failedBefore # << >>
     /\ rs.failedBefore = rs.input)
        => rs.status = "failed"

\* The name@range pairs the call has requested so far.
RequestedPairs ==
    {<<rs.log[i].name, rs.log[i].range>> : i \in 1..Len(rs.log)}
        \cup {<<rs.stack[k].name, rs.stack[k].range>> :
                 k \in 1..Len(rs.stack)}

\* A pair's metadata is queried once at most, in this call and in the
\* calls before it; a pair is in the memo while its dependencies are
\* walked; no request of a resolve call is deeper than the number of pairs
\* requested.
QueriedOnceAndShallow ==
    /\ \A i, j \in 1..Len(rs.log) :
           (/\ i < j
            /\ rs.log[i].how = "query" /\ rs.log[j].how = "query")
               => <<rs.log[i].name, rs.log[i].range>>
                      # <<rs.log[j].name, rs.log[j].range>>
    /\ \A i \in 1..Len(rs.log) :
           rs.log[i].how = "query"
               => /\ cacheKey(rs.log[i].name, rs.log[i].range)
                         \notin DOMAIN rs.memo0
                  /\ cacheKey(rs.log[i].name, rs.log[i].range)
                         \in DOMAIN rs.memo
    /\ \A k \in 1..Len(rs.stack) :
           rs.stack[k].pc = "loop"
               => cacheKey(rs.stack[k].name, rs.stack[k].range)
                      \in DOMAIN rs.memo
    /\ rs.entry = "resolve"
           => /\ \A i \in 1..Len(rs.log) :
                     rs.log[i].depth <= Cardinality(RequestedPairs)
              /\ \A k \in 1..Len(rs.stack) :
                     rs.stack[k].depth <= Cardinality(RequestedPairs)

\* C34: every call that runs returns or raises, cyclic dependencies
\* included; each name@range pair is queried and walked at most once
\* across the calls on one Resolver, being in the memo before its
\* dependencies are descended into; and the depth of a resolve call never
\* exceeds the number of pairs it requests.
C34_ResolveTerminates ==
    /\ []QueriedOnceAndShallow
    /\ (rs.status = "running") ~> Finished

\* Reached: a resolve call on a Resolver with memo entries of an earlier
\* call has returned after it queried a pair and answered another, below
\* the top, from the earlier call's memo.
C34_Witness ==
    /\ rs.entry = "resolve"
    /\ rs.status = "done"
    /\ rs.memo0 # EmptyMap
    /\ \E i, j \in 1..Len(rs.log) :
           /\ rs.log[i].how = "query"
           /\ rs.log[j].how = "memo"
           /\ rs.log[j].depth > 0
           /\ cacheKey(rs.log[j].name, rs.log[j].range) \in DOMAIN rs.memo0

\* C39: linkPackage called with a source that does not exist throws and
\* leaves nothing at the target; it returns no tag.
C39_MissingSourceFails ==
    (lk.source = "missing" /\ lk.pc \in {"returned", "threw"})
        => /\ lk.pc = "threw"
           /\ tgt = Absent

(***************************************************************************)
(* Further properties of the store.                                        *)
(***************************************************************************)
\* C40: whenever clean calls deletePackage for a reported record, the name
\* and version it passes are those of a record that was scanned and that
\* gave the reported name; and for every identity, scoped names included,
\* splitting "name@version" gives back the name and the version.
C40_CleanDeletesScannedIdentity ==
    /\ (op.kind = "clean" /\ op.pc \in {"rmSlot", "rmMeta"})
           => /\ metaPath(op.name, op.version) \in DOMAIN op.meta0
              /\ ReplaceDotJson(metaPath(op.name, op.version))
                     = Head(op.queue).name
    /\ \A id \in StIds : SplitAt(id[1] \o "@" \o id[2]) = id

\* A slot directory exists for exactly the identities that have a record.
SlotIffRecord(slotDirs, records) ==
    \A id \in StIds :
        getPackagePath(id[1], id[2]) \in DOMAIN slotDirs
            <=> metaPath(id[1], id[2]) \in DOMAIN records

\* C38: a storePackage, touchPackage, updateMetadata or deletePackage call
\* that begins in a store where every identity has its slot exactly when it
\* has its record, and that returns without a failed file-system operation,
\* leaves the store so; a touchPackage for an identity without slot creates
\* no record.
C38_SlotIffRecord ==
    [][(/\ op.pc \notin {"returned", "threw"}
        /\ op'.pc = "returned"
        /\ op'.kind \in {"storePackage", "touchPackage", "updateMetadata",
                         "deletePackage"}
        /\ ~op'.rmFailed
        /\ SlotIffRecord(op'.slots0, op'.meta0))
           => SlotIffRecord(slots', metaFiles')]_vars

(***************************************************************************)
(* Properties of overlapping metadata updates.                             *)
(***************************************************************************)
\* The two callers' calls were for one identity, overlapped, and have
\* returned.
BothUpdated ==
    /\ \A c \in Updaters : up[c].pc = "returned" /\ up[c].overlapped
    /\ up["u1"].name = up["u2"].name
    /\ up["u1"].version = up["u2"].version

\* The record holds every field either call gave, with the value one of the
\* two calls gave for that field.
HoldsBothUpdates(record) ==
    \A c \in Updaters : \A k \in DOMAIN up[c].data :
        /\ k \in DOMAIN record
        /\ \E d \in Updaters :
               k \in DOMAIN up[d].data /\ record[k] = up[d].data[k]

\* C37: when two updateMetadata or touchPackage calls for one identity
\* overlap, the record left after both returned has the fields of both.
C37_NoLostUpdate ==
    BothUpdated
        => /\ metaPath(up["u1"].name, up["u1"].version) \in DOMAIN upFiles
           /\ HoldsBothUpdates(
                  upFiles[metaPath(up["u1"].name, up["u1"].version)])

(***************************************************************************)
(* Further properties of installs that overlap.                            *)
(***************************************************************************)
\* C35: in every interleaving of two installs on one cache, hasPackage
\* answers true only for a slot that storePackage has completed, and the
\* slot linkToProject links into a project is complete when it is linked.
C35_NeverLinksIncompleteSlot ==
    [][\A i \in Installers :
          /\ (ins[i].pc = "has" /\ ins'[i].pc = "link")
                 => /\ disk.slot[ins[i].queue[1]] = "complete"
                    /\ ins[i].queue[1] \in DOMAIN disk.meta
          /\ (ins[i].pc = "link" /\ ins'[i].pc \notin {"link", "threw"})
                 => disk.slot[ins[i].queue[1]] = "complete"]_vars

(***************************************************************************)
(* Properties of the download target shared by the versions of a name.     *)
(***************************************************************************)
\* C36: the slot stored for a version holds exactly the files of that
\* version's tarball, none that an earlier failed install or an overlapping
\* install of another version left in cacheDir/temp/<name>.
C36_SlotHoldsItsVersionOnly ==
    \A version \in DOMAIN vslots :
        vslots[version] = { <<f, version>> : f \in TarballFiles(version) }

====
